---- MODULE Spec2Model ----
(***************************************************************************)
(* A model of the easyscience parameter/constraint engine:                 *)
(*   - src/src/easyscience/Constraints.py        (the constraint classes)  *)
(*   - src/src/easyscience/Objects/variable/descriptor_array.py            *)
(*   - the undo/redo stack, DescriptorBase and Parameter, whose modules    *)
(*     (global_object/undo_redo.py, variable/parameter.py) are imported    *)
(*     by the sources above but are not part of src/: they are modelled    *)
(*     from spec.md sections 2, 4.2, 4.4 and 5.                            *)
(*                                                                         *)
(* Numbers are exact (spec.md section 1 assumes arbitrary-precision        *)
(* arithmetic of the numeric library); the input sets are chosen so that   *)
(* square roots and unit rescalings stay inside the integers.              *)
(***************************************************************************)
EXTENDS Integers, Sequences, FiniteSets, TLC

(***************************************************************************)
(* Python values.  Every value that can be handed to a setter or stored in *)
(* an undo command is a record [t, v]: t is the Python type, v the payload.*)
(***************************************************************************)
None == [t |-> "none", v |-> 0]

Num(n) == [t |-> "num", v |-> n]

Arr(s) == [t |-> "arr", v |-> s]

Str(s) == [t |-> "str", v |-> s]

Bool(b) == [t |-> "bool", v |-> b]

\* A reference to the scipp variable with identity id.
Ref(id) == [t |-> "ref", v |-> id]

\* The outcome of a call: the new object record and the exception raised ("" if none).
Ok(o) == [obj |-> o, err |-> ""]

Raise(o, e) == [obj |-> o, err |-> e]

(***************************************************************************)
(* Bounds of the model.                                                    *)
(***************************************************************************)
\* Entries the undo history may hold (the model stops pushing beyond it).
MaxHist == 2

\* Commands the undo history may hold.
MaxCmds == 3

\* Constraint objects that may be constructed.
MaxCons == 2

(***************************************************************************)
(* Numeric helpers (numpy elementwise operations on a flattened array).    *)
(***************************************************************************)
\* np.sqrt on an exact square.
Sqrt(n) == CHOOSE r \in 0..n : r * r = n

SqrtAll(s) == [i \in 1..Len(s) |-> Sqrt(s[i])]

SquareAll(s) == [i \in 1..Len(s) |-> s[i] * s[i]]

\* np.all(x >= 0)
AllNonNegative(s) == \A i \in 1..Len(s) : s[i] >= 0

(***************************************************************************)
(* Units.  sc.Unit(unit_str) parses "m" and "dm" (lengths), their squares, *)
(* "s" (time), and "dimensionless", "" and "1000" (pure numbers: one, one,  *)
(* a thousand); anything else is not a unit.  A unit is named by the string str(unit)   *)
(* prints.  UnitScale(u) is the number of u in the largest unit of its     *)
(* dimension (one metre, one square metre, one second, one thousand).      *)
(***************************************************************************)
KnownUnits == {"m", "dm", "s", "dimensionless", "1000", "", "m^2", "dm^2"}

\* sc.Unit(unit_str) for a string that parses: the empty string is the
\* dimensionless unit.
ParseUnit(unit_str) == IF unit_str = "" THEN "dimensionless" ELSE unit_str

Dimension(u) ==
    IF u \in {"m", "dm"} THEN "length"
    ELSE IF u \in {"m^2", "dm^2"} THEN "area"
    ELSE IF u \in {"dimensionless", "1000"} THEN "one"
    ELSE "time"

UnitScale(u) ==
    CASE u = "dm" -> 10
      [] u = "dm^2" -> 100
      [] u = "dimensionless" -> 1000
      [] OTHER -> 1

\* str(unit), letter by letter.
UnitChars(u) ==
    CASE u = "m" -> <<"m">>
      [] u = "dm" -> <<"d", "m">>
      [] u = "s" -> <<"s">>
      [] u = "m^2" -> <<"m", "^", "2">>
      [] u = "dm^2" -> <<"d", "m", "^", "2">>
      [] u = "1000" -> <<"1", "0", "0", "0">>
      [] u = "dimensionless" ->
            <<"d", "i", "m", "e", "n", "s", "i", "o", "n", "l", "e", "s", "s">>

\* string[i:]
RECURSIVE Slice(_, _)
Slice(string, i) ==
    IF i > Len(string) THEN "" ELSE string[i] \o Slice(string, i + 1)

NumericLetters == {"0", "1", "2", "3", "4", "5", "6", "7", "8", "9", ".", "+", "-"}

\* _base_unit(): the unit string from its first letter that is not part of a
\* leading number (an "e" belongs to the number when a sign follows it);
\* the empty string when there is no such letter.
RECURSIVE BaseUnitFrom(_, _)
BaseUnitFrom(string, i) ==
    IF i > Len(string) THEN ""
    ELSE IF string[i] = "e"
    THEN IF i < Len(string) /\ string[i + 1] \in {"+", "-"}
         THEN BaseUnitFrom(string, i + 1)
         ELSE Slice(string, i)
    ELSE IF string[i] \notin NumericLetters THEN Slice(string, i)
    ELSE BaseUnitFrom(string, i + 1)

BaseUnit(o) == BaseUnitFrom(UnitChars(o.unit), 1)

\* self._array.to(unit=new_unit): a NEW variable whose values are scaled by
\* the ratio of the units and whose variances by its square.
ScaleAll(s, mul, div) == [i \in 1..Len(s) |-> (s[i] * mul) \div div]

ArrayTo(o, new_unit) ==
    LET to == UnitScale(new_unit)
        from == UnitScale(o.unit)
        mul == IF to >= from THEN to \div from ELSE 1
        div == IF to >= from THEN 1 ELSE from \div to
    IN  [values |-> Arr(ScaleAll(o.value.v, mul, div)),
         unit |-> new_unit,
         variances |-> IF o.variance.t = "none" THEN None
                       ELSE Arr(ScaleAll(o.variance.v, mul * mul, div * div))]

(***************************************************************************)
(* DescriptorArray (descriptor_array.py).  self._array is a reference to a *)
(* scipp variable: the object record holds the identity of that variable   *)
(* (aid) and its current content (value, unit, variance).  The setters     *)
(* below assign into the variable in place; convert_unit replaces it.      *)
(***************************************************************************)
\* The setter checking its input and assigning nothing.
ValueSetterDrop(o, value) ==
    IF value.t # "arr" THEN Raise(o, "TypeError")
    ELSE IF Len(value.v) # Len(o.value.v) THEN Raise(o, "ValueError")
    ELSE Ok(o)

\* value.setter, the function wrapped by property_stack_deco.
ValueSetter(o, value) ==
    IF value.t # "arr" THEN Raise(o, "TypeError")
    ELSE IF Len(value.v) # Len(o.value.v) THEN Raise(o, "ValueError")
    ELSE Ok([o EXCEPT !.value = value])

\* The setter without the check of the sign.
VarianceSetterUnsigned(o, variance) ==
    IF variance.t = "none" THEN Ok([o EXCEPT !.variance = None])
    ELSE IF variance.t # "arr" THEN Raise(o, "TypeError")
    ELSE IF Len(variance.v) # Len(o.value.v) THEN Raise(o, "ValueError")
    ELSE Ok([o EXCEPT !.variance = variance])

\* variance.setter, the function wrapped by property_stack_deco.
VarianceSetter(o, variance) ==
    IF variance.t = "none" THEN Ok([o EXCEPT !.variance = None])
    ELSE IF variance.t # "arr" THEN Raise(o, "TypeError")
    ELSE IF Len(variance.v) # Len(o.value.v) THEN Raise(o, "ValueError")
    ELSE IF ~AllNonNegative(variance.v) THEN Raise(o, "ValueError")
    ELSE Ok([o EXCEPT !.variance = variance])

\* The getter returning the variances themselves.
ErrorGetterNoSqrt(o) ==
    IF o.variance.t = "none" THEN None ELSE o.variance

\* error (getter): the square root of the variances, None without variances.
ErrorGetter(o) ==
    IF o.variance.t = "none" THEN None ELSE Arr(SqrtAll(o.variance.v))

\* The setter assigning the squares before it looks at the sign.
ErrorSetterAssignsFirst(o, error) ==
    IF error.t = "none" THEN Ok([o EXCEPT !.variance = None])
    ELSE IF error.t # "arr" THEN Raise(o, "TypeError")
    ELSE IF Len(error.v) # Len(o.value.v) THEN Raise(o, "ValueError")
    ELSE IF ~AllNonNegative(error.v)
         THEN Raise([o EXCEPT !.variance = Arr(SquareAll(error.v))], "ValueError")
    ELSE Ok([o EXCEPT !.variance = Arr(SquareAll(error.v))])

\* error.setter, the function wrapped by property_stack_deco.
ErrorSetter(o, error) ==
    IF error.t = "none" THEN Ok([o EXCEPT !.variance = None])
    ELSE IF error.t # "arr" THEN Raise(o, "TypeError")
    ELSE IF Len(error.v) # Len(o.value.v) THEN Raise(o, "ValueError")
    ELSE IF ~AllNonNegative(error.v) THEN Raise(o, "ValueError")
    ELSE Ok([o EXCEPT !.variance = Arr(SquareAll(error.v))])

\* full_value (getter): self._array, a reference.
FullValue(o) == Ref(o.aid)

\* The content of the variable self._array refers to.
Content(o) == [values |-> o.value, unit |-> o.unit, variances |-> o.variance]

\* set_array(obj, scalar), the setter convert_unit hands to the undo stack:
\* obj._array = scalar, where scalar is the variable id with content c.
SetArray(o, id, c) ==
    [o EXCEPT !.aid = id, !.value = c.values, !.unit = c.unit, !.variance = c.variances]

(***************************************************************************)
(* The program state is threaded through the operators as a record S:      *)
(*   objs   the registered objects (the global map), by unique_name        *)
(*   heap   the scipp variables that are still referenced, by identity     *)
(*   cons   the constraint objects constructed so far, by the name the     *)
(*          caller keeps them under                                        *)
(*   hist   the undo history, most recent entry first                      *)
(*   fut    the redo history, next entry to redo first                     *)
(*   macro  a macro is open                                                *)
(*   sten   the undo stack's enabled flag                                  *)
(*   err    the exception being propagated ("" if none)                    *)
(*   inv    the constraints that have written their dependent during the   *)
(*          operation in progress, in order (bookkeeping for the claims)   *)
(***************************************************************************)
\* The remaining attributes (display_name of DescriptorBase; value, min, max,
\* fixed, enabled of Parameter) are stored attributes; a value must be a number.
PlainSetter(o, attr, value) ==
    IF attr = "value" /\ value.t # "num" THEN Raise(o, "TypeError")
    ELSE Ok([o EXCEPT ![attr] = value])

\* getattr(obj, name): the old state the setter wrapper stores.
GetAttr(o, attr) ==
    CASE attr = "error" -> ErrorGetter(o)
      [] attr = "array" -> FullValue(o)
      [] OTHER -> o[attr]

\* The function wrapped by property_stack_deco for attribute attr.
RawSetter(o, attr, value) ==
    CASE o.cls = "DescriptorArray" /\ attr = "value" -> ValueSetter(o, value)
      [] o.cls = "DescriptorArray" /\ attr = "variance" -> VarianceSetter(o, value)
      [] o.cls = "DescriptorArray" /\ attr = "error" -> ErrorSetter(o, value)
      [] OTHER -> PlainSetter(o, attr, value)

\* The setter of a command applied to a value.  The DescriptorArray setters
\* assign into the variable self._array refers to, so every holder of a
\* reference to that variable sees the change.
ApplySetter(S, obj, attr, value) ==
    IF attr = "array"
    THEN [S EXCEPT !.objs[obj] = SetArray(@, value.v, S.heap[value.v])]
    ELSE LET r == RawSetter(S.objs[obj], attr, value)
         IN  [S EXCEPT !.objs[obj] = r.obj,
                       !.err = r.err,
                       !.heap = IF r.obj.cls = "DescriptorArray"
                                THEN [@ EXCEPT ![r.obj.aid] = Content(r.obj)]
                                ELSE @]

(***************************************************************************)
(* The undo/redo stack (spec.md 4.4).                                      *)
(***************************************************************************)
\* One reversible mutation: target, setter, old value, new value, label.
PropertyStack(obj, attr, old, new, text) ==
    [obj |-> obj, attr |-> attr, old |-> old, new |-> new, text |-> text]

\* One entry of a history: a label and its commands, most recent first.
CommandHolder(text, cmds) == [text |-> text, cmds |-> cmds]

\* push that labels the entry it appends to with the label of the command.
PushRelabels(S, cmd) ==
    LET T == ApplySetter(S, cmd.obj, cmd.attr, cmd.new)
    IN  IF T.err # "" THEN T
        ELSE IF ~S.sten THEN T
        ELSE IF S.macro
             THEN [T EXCEPT !.hist[1] = CommandHolder(cmd.text, <<cmd>> \o @.cmds),
                            !.fut = <<>>]
             ELSE [T EXCEPT !.hist = <<CommandHolder(cmd.text, <<cmd>>)>> \o @,
                            !.fut = <<>>]

\* push(command): the mutation happens through the push; with the stack enabled
\* the command is appended to the undo history (to the open macro, if any) and
\* the redo history is cleared.  A value the setter refuses is not recorded.
Push(S, cmd) ==
    LET T == ApplySetter(S, cmd.obj, cmd.attr, cmd.new)
    IN  IF T.err # "" THEN T
        ELSE IF ~S.sten THEN T
        ELSE IF S.macro
             THEN [T EXCEPT !.hist[1].cmds = <<cmd>> \o @, !.fut = <<>>]
             ELSE [T EXCEPT !.hist = <<CommandHolder(cmd.text, <<cmd>>)>> \o @,
                            !.fut = <<>>]

\* The wrapper every mutating setter goes through (spec.md 4.2): with the
\* stack enabled, (self, raw setter, old state, new state, label) is pushed
\* as one command; with the stack disabled the setter is applied directly.
PropertySet(S, obj, attr, value) ==
    IF S.sten
    THEN Push(S, PropertyStack(obj, attr, GetAttr(S.objs[obj], attr), value, attr))
    ELSE ApplySetter(S, obj, attr, value)

CanUndo(S) == Len(S.hist) > 0 /\ ~S.macro

CanRedo(S) == Len(S.fut) > 0 /\ ~S.macro

UndoText(S) == IF Len(S.hist) > 0 THEN S.hist[1].text ELSE ""

RedoText(S) == IF Len(S.fut) > 0 THEN S.fut[1].text ELSE ""

\* The old states of an entry's commands applied in the order of the pushes.
UndoCommandsOldestFirst(S, cmds, i) ==
    LET RECURSIVE Back(_, _)
        Back(T, j) ==
            IF j < i THEN T
            ELSE Back(ApplySetter(T, cmds[j].obj, cmds[j].attr, cmds[j].old), j - 1)
    IN  Back(S, Len(cmds))

\* The old states of an entry's commands, the most recent command first.
RECURSIVE UndoCommands(_, _, _)
UndoCommands(S, cmds, i) ==
    IF i > Len(cmds) THEN S
    ELSE UndoCommands(ApplySetter(S, cmds[i].obj, cmds[i].attr, cmds[i].old),
                      cmds, i + 1)

\* The new states of an entry's commands, in the order they were pushed.
RECURSIVE RedoCommands(_, _, _)
RedoCommands(S, cmds, i) ==
    IF i < 1 THEN S
    ELSE RedoCommands(ApplySetter(S, cmds[i].obj, cmds[i].attr, cmds[i].new),
                      cmds, i - 1)

\* undo(): the most recent entry moves to the redo history and is reverted.
Undo(S) ==
    IF ~CanUndo(S) THEN S
    ELSE UndoCommands([S EXCEPT !.hist = Tail(@), !.fut = <<S.hist[1]>> \o @],
                      S.hist[1].cmds, 1)

\* redo(): the next redo entry moves back to the undo history and is replayed.
Redo(S) ==
    IF ~CanRedo(S) THEN S
    ELSE RedoCommands([S EXCEPT !.fut = Tail(@), !.hist = <<S.fut[1]>> \o @],
                      S.fut[1].cmds, Len(S.fut[1].cmds))

\* beginMacro(text): opens a labelled entry; macros do not nest.
BeginMacro(S, text) ==
    IF S.macro THEN [S EXCEPT !.err = "AssertionError"]
    ELSE [S EXCEPT !.hist = <<CommandHolder(text, <<>>)>> \o @, !.macro = TRUE]

\* endMacro(): closes the open entry.
EndMacro(S) ==
    IF ~S.macro THEN [S EXCEPT !.err = "AssertionError"]
    ELSE [S EXCEPT !.macro = FALSE]

\* Parameter.bounds setter writing the three attributes as three entries.
BoundsSetterSeparate(S, obj, lo, hi) ==
    PropertySet(PropertySet(PropertySet(S, obj, "min", lo), obj, "max", hi),
                obj, "enabled", Bool(TRUE))

\* Parameter.bounds setter (test_Parameter_Bounds_UndoRedo): min, max and
\* enabled = True are written through their setters as one undo unit.
BoundsSetter(S, obj, lo, hi) ==
    LET S0 == IF S.sten THEN BeginMacro(S, "bounds") ELSE S
        S3 == PropertySet(PropertySet(PropertySet(S0, obj, "min", lo), obj, "max", hi),
                          obj, "enabled", Bool(TRUE))
    IN  IF S0.err # "" THEN S0
        ELSE IF S.sten THEN EndMacro(S3)
        ELSE S3

(***************************************************************************)
(* DescriptorArray.convert_unit (descriptor_array.py).                     *)
(***************************************************************************)
\* The identity of a newly created scipp variable.
NewId(S) ==
    CHOOSE n \in 0..Cardinality(DOMAIN S.heap) :
        n \notin DOMAIN S.heap /\ \A m \in 0..(n - 1) : m \in DOMAIN S.heap

\* convert_unit converting the variable in place instead of making a new one.
ConvertUnitInPlace(S, obj, unit_str) ==
    LET o == S.objs[obj]
    IN  IF unit_str.t # "str" THEN [S EXCEPT !.err = "TypeError"]
        ELSE IF unit_str.v \notin KnownUnits THEN [S EXCEPT !.err = "UnitError"]
        ELSE IF Dimension(unit_str.v) # Dimension(o.unit)
             THEN [S EXCEPT !.err = "UnitError"]
        ELSE LET S1 == [S EXCEPT !.heap[o.aid] = ArrayTo(o, unit_str.v)]
             IN  Push(S1, PropertyStack(obj, "array", FullValue(o), FullValue(o),
                                        "Convert unit"))

\* convert_unit reading old_array only after the conversion.
ConvertUnitStale(S, obj, unit_str) ==
    LET o == S.objs[obj]
    IN  IF unit_str.t # "str" THEN [S EXCEPT !.err = "TypeError"]
        ELSE IF unit_str.v \notin KnownUnits THEN [S EXCEPT !.err = "UnitError"]
        ELSE IF Dimension(unit_str.v) # Dimension(o.unit)
             THEN [S EXCEPT !.err = "UnitError"]
        ELSE LET id == NewId(S)
                 new_array == Ref(id)
                 S1 == [S EXCEPT !.heap = (id :> ArrayTo(o, unit_str.v)) @@ @]
                 T == Push(S1, PropertyStack(obj, "array", new_array, new_array,
                                             "Convert unit"))
             IN  [T EXCEPT !.objs[obj] = SetArray(@, id, T.heap[id])]

\* convert_unit without the push to the undo stack.
ConvertUnitNoPush(S, obj, unit_str) ==
    LET o == S.objs[obj]
    IN  IF unit_str.t # "str" THEN [S EXCEPT !.err = "TypeError"]
        ELSE IF unit_str.v \notin KnownUnits THEN [S EXCEPT !.err = "UnitError"]
        ELSE IF Dimension(unit_str.v) # Dimension(o.unit)
             THEN [S EXCEPT !.err = "UnitError"]
        ELSE [S EXCEPT !.objs[obj] = SetArray(@, NewId(S), ArrayTo(o, unit_str.v)),
                       !.heap = (NewId(S) :> ArrayTo(o, unit_str.v)) @@ @]

ConvertUnit(S, obj, unit_str) ==
    LET o == S.objs[obj]
    IN  IF unit_str.t # "str" THEN [S EXCEPT !.err = "TypeError"]
        ELSE IF unit_str.v \notin KnownUnits THEN [S EXCEPT !.err = "UnitError"]
        ELSE IF Dimension(ParseUnit(unit_str.v)) # Dimension(o.unit)
             THEN [S EXCEPT !.err = "UnitError"]
        ELSE LET old_array == FullValue(o)
                 id == NewId(S)
                 new_array == Ref(id)
                 S1 == [S EXCEPT !.heap = (id :> ArrayTo(o, ParseUnit(unit_str.v))) @@ @]
                 T == Push(S1, PropertyStack(obj, "array", old_array, new_array,
                                             "Convert unit"))
             IN  [T EXCEPT !.objs[obj] = SetArray(@, id, T.heap[id])]

\* DescriptorArray(name, value, unit, variance, unique_name): the checks of
\* the arguments, the scipp variable, the registration of the new object
\* under its unique name, and the conversion to the unit's base unit that
\* ends the constructor.
DescriptorArrayInit(S, name, value, unit, variance, unique_name) ==
    IF value.t # "arr" THEN [S EXCEPT !.err = "TypeError"]
    ELSE IF variance.t \notin {"none", "arr"} THEN [S EXCEPT !.err = "TypeError"]
    ELSE IF variance.t = "arr" /\ Len(variance.v) # Len(value.v)
         THEN [S EXCEPT !.err = "ValueError"]
    ELSE IF variance.t = "arr" /\ ~AllNonNegative(variance.v)
         THEN [S EXCEPT !.err = "ValueError"]
    ELSE IF unit.t # "str" THEN [S EXCEPT !.err = "TypeError"]
    ELSE IF unit.v \notin KnownUnits THEN [S EXCEPT !.err = "UnitError"]
    ELSE LET id == NewId(S)
             o == [cls |-> "DescriptorArray", name |-> name, value |-> value,
                   variance |-> variance, unit |-> ParseUnit(unit.v), aid |-> id,
                   display_name |-> Str(name)]
             S1 == [S EXCEPT !.objs = (unique_name :> o) @@ @,
                             !.heap = (id :> Content(o)) @@ @]
         IN  ConvertUnit(S1, unique_name, Str(BaseUnit(o)))

\* A unit setter that relabels the array.
UnitSetterAssigns(o, unit_str) == Ok([o EXCEPT !.unit = unit_str.v])

\* unit.setter: the unit is read-only.
UnitSetter(o, unit_str) == Raise(o, "AttributeError")

\* full_value.setter: the full value is read-only.
FullValueSetter(o, full_value) == Raise(o, "AttributeError")

(***************************************************************************)
(* Arithmetic of a DescriptorArray (descriptor_array.py).  The other       *)
(* operand is a number Num(x), a list Arr(s), or a DescriptorNumber or     *)
(* DescriptorArray, handed over as its record (arithmetic only reads and   *)
(* copies it).  A DescriptorNumber (its module is not under src/) is a     *)
(* record with a value and a variance of one element.  The copies and the  *)
(* negated operands the methods make are values here; only the objects     *)
(* that __radd__ hands to __neg__ and that are returned are registered.    *)
(***************************************************************************)
Obj(o) == [t |-> "obj", v |-> o]

\* A unique name the global map does not hold.
UniqueNames == <<"DescriptorArray_0", "DescriptorArray_1">>

UniqueName(S) ==
    UniqueNames[CHOOSE i \in 1..Len(UniqueNames) :
                    /\ UniqueNames[i] \notin DOMAIN S.objs
                    /\ \A j \in 1..(i - 1) : UniqueNames[j] \in DOMAIN S.objs]

\* sc.broadcast of a scalar to n elements.
Broadcast(c, n) ==
    [values |-> Arr([i \in 1..n |-> c.values.v[1]]),
     unit |-> c.unit,
     variances |-> IF c.variances.t = "none" THEN None
                   ELSE Arr([i \in 1..n |-> c.variances.v[1]])]

\* The unit of a sum, a product, a quotient or a square, for the units of
\* the model; "unmodelled" for a unit outside them.
ResultUnit(op, u, v) ==
    CASE op = "add" -> IF u = v THEN u ELSE "unmodelled"
      [] op = "mul" ->
            IF u = "dimensionless" THEN v
            ELSE IF v = "dimensionless" THEN u
            ELSE IF u = v /\ u \in {"m", "dm"} THEN IF u = "m" THEN "m^2" ELSE "dm^2"
            ELSE "unmodelled"
      [] op = "truediv" ->
            IF v = "dimensionless" THEN u
            ELSE IF u = v THEN "dimensionless"
            ELSE "unmodelled"

\* operator(a, b) on two scipp variables of the same shape: elementwise
\* values and first-order propagation of the variances (a missing variance
\* counts as zero).  Quotients are rounded down; scipp does not raise on a
\* zero divisor, the quotient is then not a finite number (0 here).
ScippOp(op, a, b) ==
    LET n == Len(a.values.v)
        x == a.values.v
        y == b.values.v
        vx == IF a.variances.t = "none" THEN [i \in 1..n |-> 0] ELSE a.variances.v
        vy == IF b.variances.t = "none" THEN [i \in 1..n |-> 0] ELSE b.variances.v
        Quot(p, q) == IF q = 0 THEN 0 ELSE p \div q
        Value(i) == CASE op = "add" -> x[i] + y[i]
                      [] op = "mul" -> x[i] * y[i]
                      [] op = "truediv" -> Quot(x[i], y[i])
        Variance(i) ==
            CASE op = "add" -> vx[i] + vy[i]
              [] op = "mul" -> y[i] * y[i] * vx[i] + x[i] * x[i] * vy[i]
              [] op = "truediv" ->
                    Quot(vx[i] + Quot(x[i] * x[i] * vy[i], y[i] * y[i]), y[i] * y[i])
    IN  [values |-> Arr([i \in 1..n |-> Value(i)]),
         unit |-> ResultUnit(op, a.unit, b.unit),
         variances |-> IF a.variances.t = "none" /\ b.variances.t = "none" THEN None
                       ELSE Arr([i \in 1..n |-> Variance(i)])]

\* DescriptorArray.from_scipp(name=self.name, full_value=new_full_value)
\* followed by descriptor_array.name = descriptor_array.unique_name.
FromScipp(S, name, full_value) ==
    IF full_value.unit = "unmodelled" THEN [S EXCEPT !.err = "Unmodelled"]
    ELSE LET u == UniqueName(S)
             T == DescriptorArrayInit(S, name, full_value.values, Str(full_value.unit),
                                      full_value.variances, u)
         IN  IF T.err # "" THEN T ELSE [T EXCEPT !.objs[u].name = u]

\* -other
Negative(other) ==
    LET Minus(s) == [i \in 1..Len(s) |-> 0 - s[i]]
    IN  CASE other.t = "num" -> Num(0 - other.v)
          [] other.t = "arr" -> Arr(Minus(other.v))
          [] other.t = "obj" -> Obj([other.v EXCEPT !.value = Arr(Minus(@.v))])
          [] OTHER -> other

\* _smooth_operator(other, operator, units_must_match); reversed is TRUE
\* when the operator is the reversed_operator of _rsmooth_operator.  The
\* branches for the kinds of other end in an exception or in the second
\* operand of the operator.
SmoothOperator(S, self, other, op, reversed, units_must_match) ==
    LET me == S.objs[self]
        n == Len(me.value.v)
        convertible == other.t = "obj" /\ Dimension(other.v.unit) = Dimension(me.unit)
        other_converted == IF convertible THEN ArrayTo(other.v, me.unit)
                           ELSE Content(other.v)
        raised ==
            CASE other.t = "num" ->
                    IF me.unit # "dimensionless" /\ units_must_match THEN "UnitError"
                    ELSE ""
              [] other.t = "arr" ->
                    IF me.unit # "dimensionless" /\ units_must_match THEN "UnitError"
                    ELSE IF Len(other.v) # n THEN "ValueError"
                    ELSE ""
              [] other.t = "obj" ->
                    IF ~convertible /\ units_must_match THEN "UnitError" ELSE ""
              [] OTHER -> "TypeError"
        second ==
            CASE other.t = "num" ->
                    [values |-> Arr([i \in 1..n |-> other.v]),
                     unit |-> "dimensionless", variances |-> None]
              [] other.t = "arr" ->
                    [values |-> other, unit |-> "dimensionless", variances |-> None]
              [] other.t = "obj" ->
                    IF other.v.cls = "DescriptorNumber"
                    THEN Broadcast(other_converted, n)
                    ELSE other_converted
    IN  IF raised # "" THEN [S EXCEPT !.err = raised]
        ELSE FromScipp(S, me.name, IF reversed THEN ScippOp(op, second, Content(me))
                                   ELSE ScippOp(op, Content(me), second))

\* A DescriptorNumber as the other operand.
IsNumber(other) == other.t = "obj" /\ other.v.cls = "DescriptorNumber"

\* _rsmooth_operator, first step: self.convert_unit(other.unit) when other
\* is a DescriptorNumber.
ConvertedTo(S, self, other) ==
    IF IsNumber(other) THEN ConvertUnit(S, self, Str(other.v.unit)) ELSE S

\* _rsmooth_operator, second step: C is the state after the first step.  A
\* UnitError of the conversion is raised again only if the units must match;
\* otherwise self keeps its unit and the reversed operator is applied.
ReversedOn(S, C, self, other, op, units_must_match) ==
    IF C.err # "" /\ units_must_match THEN [S EXCEPT !.err = "UnitError"]
    ELSE SmoothOperator(IF C.err # "" THEN S ELSE C, self, other,
                        op, TRUE, units_must_match)

\* _rsmooth_operator, last step: self.convert_unit(original_unit) once the
\* result R exists.
ConvertBack(R, self, other, original_unit) ==
    IF ~IsNumber(other) \/ R.err # "" THEN R
    ELSE ConvertUnit(R, self, Str(original_unit))

\* _rsmooth_operator leaving self in the unit of other.
RSmoothOperatorNoRevert(S, self, other, op, units_must_match) ==
    ReversedOn(S, ConvertedTo(S, self, other), self, other, op, units_must_match)

\* _rsmooth_operator(other, operator, units_must_match).  Python tries
\* other.__op__(self) first, so other is no DescriptorArray here.  With a
\* DescriptorNumber, self is converted to the unit of other (if that is
\* possible), the result computed, and self converted back.
RSmoothOperator(S, self, other, op, units_must_match) ==
    ConvertBack(ReversedOn(S, ConvertedTo(S, self, other), self, other,
                           op, units_must_match),
                self, other, S.objs[self].unit)

\* np.any(x == 0) for the divisor.
AnyZero(other) ==
    CASE other.t = "num" -> other.v = 0
      [] other.t = "arr" -> \E i \in 1..Len(other.v) : other.v[i] = 0
      [] other.t = "obj" -> \E i \in 1..Len(other.v.value.v) : other.v.value.v[i] = 0
      [] OTHER -> FALSE

Known(other) == other.t \in {"num", "arr", "obj"}

\* __truediv__
TrueDiv(S, self, other) ==
    IF ~Known(other) THEN [S EXCEPT !.err = "TypeError"]
    ELSE IF AnyZero(other) THEN [S EXCEPT !.err = "ZeroDivisionError"]
    ELSE SmoothOperator(S, self, other, "truediv", FALSE, FALSE)

\* __rtruediv__ without the check of self.
RTrueDivUnchecked(S, self, other) ==
    IF ~Known(other) THEN [S EXCEPT !.err = "TypeError"]
    ELSE RSmoothOperator(S, self, other, "truediv", FALSE)

\* __rtruediv__
RTrueDiv(S, self, other) ==
    IF ~Known(other) THEN [S EXCEPT !.err = "TypeError"]
    ELSE IF AnyZero(Obj(S.objs[self])) THEN [S EXCEPT !.err = "ZeroDivisionError"]
    ELSE RSmoothOperator(S, self, other, "truediv", FALSE)

\* __neg__ of the registered array r, which is then dropped.
NegateAndDrop(S, r) ==
    LET o == S.objs[r]
        T == FromScipp(S, o.name, [Content(o) EXCEPT !.values = Negative(@)])
    IN  [T EXCEPT !.objs = [k \in DOMAIN @ \ {r} |-> @[k]]]

\* __pow__: the exponent is a number or a dimensionless DescriptorNumber
\* without variance.  The exponents of the model are 0 and 2; the variance
\* of x^k is (k x^(k-1))^2 times that of x.
Pow(S, self, other) ==
    LET me == S.objs[self]
        x == me.value.v
        RECURSIVE Exp(_, _)
        Exp(b, k) == IF k <= 0 THEN 1 ELSE b * Exp(b, k - 1)
        Slope(b, k) == IF k <= 0 THEN 0 ELSE k * Exp(b, k - 1)
        Power(k) ==
            [values |-> Arr([i \in 1..Len(x) |-> Exp(x[i], k)]),
             unit |-> CASE k = 0 -> "dimensionless"
                        [] k = 2 -> ResultUnit("mul", me.unit, me.unit)
                        [] OTHER -> "unmodelled",
             variances |-> IF me.variance.t = "none" THEN None
                           ELSE Arr([i \in 1..Len(x) |->
                                       Slope(x[i], k) * Slope(x[i], k) * me.variance.v[i]])]
        raised ==
            IF other.t = "num" THEN ""
            ELSE IF other.t = "obj" /\ other.v.cls = "DescriptorNumber"
            THEN IF other.v.unit # "dimensionless" THEN "UnitError"
                 ELSE IF other.v.variance.t # "none" THEN "ValueError"
                 ELSE ""
            ELSE "TypeError"
        exponent == IF other.t = "num" THEN other.v ELSE other.v.value.v[1]
    IN  IF raised # "" THEN [S EXCEPT !.err = raised]
        ELSE FromScipp(S, me.name, Power(exponent))

\* -(...) around the result r of __radd__ in __rsub__.
NegateIf(negate, R, r) ==
    IF ~negate \/ R.err # "" THEN R ELSE NegateAndDrop(R, r)

\* self.<method>(other), the method Python calls for a binary operator:
\* __sub__ adds -other, __rsub__ negates the sum of self and -other.
Binary(S, method, self, other) ==
    LET op == IF method \in {"__mul__", "__rmul__"} THEN "mul" ELSE "add"
        must_match == op = "add"
        checked == method \notin {"__add__", "__radd__"}
        arg == IF method \in {"__sub__", "__rsub__"} THEN Negative(other) ELSE other
    IN  CASE method \in {"__add__", "__sub__", "__mul__"} ->
                IF checked /\ ~Known(other) THEN [S EXCEPT !.err = "TypeError"]
                ELSE SmoothOperator(S, self, arg, op, FALSE, must_match)
          [] method \in {"__radd__", "__rsub__", "__rmul__"} ->
                IF checked /\ ~Known(other) THEN [S EXCEPT !.err = "TypeError"]
                ELSE NegateIf(method = "__rsub__",
                              RSmoothOperator(S, self, arg, op, must_match),
                              UniqueName(S))
          [] method = "__truediv__" -> TrueDiv(S, self, other)
          [] method = "__rtruediv__" -> RTrueDiv(S, self, other)
          [] method = "__pow__" -> Pow(S, self, other)
          [] method = "__rpow__" -> [S EXCEPT !.err = "TypeError"]

(***************************************************************************)
(* Constraints (Constraints.py).  A constraint object is a record          *)
(*   cls       the class                                                   *)
(*   dep       dependent_obj_ids                                           *)
(*   indep     independent_obj_ids: None, one name, or a list of names     *)
(*   operator  the operator string, or the list of operator strings        *)
(*   value     the auxiliary operand                                       *)
(*   enabled   _enabled                                                    *)
(*   ids       the type of dependent_obj_ids: "str" unless reassigned      *)
(*   aeval     the symbols of the interpreter the constraint holds         *)
(***************************************************************************)
\* Interpreter(): a new interpreter, without symbols of the constraint.
Interpreter == <<>>

NoIndep == [t |-> "none", v |-> <<>>]

OneIndep(id) == [t |-> "id", v |-> <<id>>]

ListIndep(ids) == [t |-> "list", v |-> ids]

NumericConstraint(dep, op, value) ==
    [cls |-> "NumericConstraint", dep |-> dep, indep |-> NoIndep,
     operator |-> <<op>>, value |-> value, enabled |-> TRUE,
     ids |-> "str", aeval |-> Interpreter]

ObjConstraint(dep, op, indep) ==
    [cls |-> "ObjConstraint", dep |-> dep, indep |-> OneIndep(indep),
     operator |-> <<op>>, value |-> 0, enabled |-> TRUE,
     ids |-> "str", aeval |-> Interpreter]

MultiObjConstraint(indeps, ops, dep, value) ==
    [cls |-> "MultiObjConstraint", dep |-> dep, indep |-> ListIndep(indeps),
     operator |-> ops, value |-> value, enabled |-> TRUE,
     ids |-> "str", aeval |-> Interpreter]

\* value is the name of the attribute of the dependent compared against.
SelfConstraint(dep, op, value) ==
    [cls |-> "SelfConstraint", dep |-> dep, indep |-> NoIndep,
     operator |-> <<op>>, value |-> value, enabled |-> TRUE,
     ids |-> "str", aeval |-> Interpreter]

\* func is the name of the function; indep is None or a list.
FunctionalConstraint(dep, func, indep) ==
    [cls |-> "FunctionalConstraint", dep |-> dep, indep |-> indep,
     operator |-> <<func>>, value |-> 0, enabled |-> TRUE,
     ids |-> "str", aeval |-> Interpreter]

\* The result of an evaluation: the value, or the exception raised.
Val(v) == [val |-> v, err |-> ""]

Fail(e) == [val |-> None, err |-> e]

\* The comparison operators the expression evaluator knows.
Comparisons == {"==", "<", ">", "<=", ">="}

Compare(op, v1, v2) ==
    CASE op = "==" -> v1 = v2
      [] op = "<" -> v1 < v2
      [] op = ">" -> v1 > v2
      [] op = "<=" -> v1 <= v2
      [] op = ">=" -> v1 >= v2

\* NumericConstraint._parse_operator with the test inverted: the value that
\* passes the comparison is the one replaced.
NumericParseInverted(c, obj) ==
    LET value == obj.value
        op == c.operator[1]
    IN  IF op \notin Comparisons THEN Fail("SyntaxError")
        ELSE IF value.t = "arr" THEN Fail("ValueError")
        ELSE IF Compare(op, value.v, c.value) THEN Val(Num(c.value))
        ELSE Val(value)

\* NumericConstraint._parse_operator that never corrects the value.
NumericParseKeeps(c, obj) ==
    IF c.operator[1] \notin Comparisons THEN Fail("SyntaxError")
    ELSE Val(obj.value)

\* NumericConstraint._parse_operator: 'value3 = value1 {operator} value2'.
\* A scalar failing the comparison is replaced by value2.  For an array the
\* code indexes value[not logic]: `not` of an array of several elements
\* raises; for a single element it selects all or nothing.
NumericParse(c, obj) ==
    LET value == obj.value
        op == c.operator[1]
    IN  IF op \notin Comparisons THEN Fail("SyntaxError")
        ELSE IF value.t = "arr"
             THEN IF Len(value.v) # 1 THEN Fail("ValueError")
                  ELSE IF ~Compare(op, value.v[1], c.value)
                       THEN Val(Arr(<<c.value>>))
                       ELSE Val(value)
        ELSE IF ~Compare(op, value.v, c.value) THEN Val(Num(c.value))
        ELSE Val(value)

\* 'value1 {operator} value2' where value2 is a number or an infinity.
CompareAttr(op, v1, x) ==
    IF x.t = "num" THEN Compare(op, v1, x.v)
    ELSE IF x.v > 0 THEN op \in {"<", "<="}
    ELSE op \in {">", ">="}

\* SelfConstraint._parse_operator: as NumericConstraint, with value2 read
\* from the attribute of the object that self.value names (for an array, an
\* attribute that holds a number).
SelfParse(c, obj) ==
    LET value == obj.value
        op == c.operator[1]
        value2 == obj[c.value]
    IN  IF op \notin Comparisons THEN Fail("SyntaxError")
        ELSE IF value.t = "arr"
             THEN IF Len(value.v) # 1 THEN Fail("ValueError")
                  ELSE IF ~CompareAttr(op, value.v[1], value2)
                       THEN Val(Arr(<<value2.v>>))
                       ELSE Val(value)
        ELSE IF ~CompareAttr(op, value.v, value2) THEN Val(value2)
        ELSE Val(value)

\* The functions handed to a FunctionalConstraint in the model: abs takes one
\* number and max takes at least two.
Functions == {"abs", "max"}

RECURSIVE MaxOf(_, _, _)
MaxOf(args, i, acc) ==
    IF i > Len(args) THEN acc
    ELSE MaxOf(args, i + 1, IF args[i] > acc THEN args[i] ELSE acc)

\* FunctionalConstraint._parse_operator: 'r_value = f(v1,v2,...)' over the
\* values of the list of objects, or over the value of the one object.
FunctionalParse(c, objs) ==
    LET ids == IF c.indep.t = "list" THEN c.indep.v ELSE <<c.dep>>
        args == [i \in 1..Len(ids) |-> objs[ids[i]].value.v]
        f == c.operator[1]
    IN  IF f = "abs"
        THEN IF Len(args) # 1 THEN Fail("TypeError")
             ELSE Val(Num(IF args[1] < 0 THEN 0 - args[1] ELSE args[1]))
        ELSE IF Len(args) < 2 THEN Fail("TypeError")
        ELSE Val(Num(MaxOf(args, 2, args[1])))

\* The prefix expressions the model evaluates: 'value2 = {operator} value1'.
Prefixes == {"", "2*", "3*", "-"}

ApplyPrefix(op, v) ==
    CASE op = "" -> v
      [] op = "2*" -> 2 * v
      [] op = "3*" -> 3 * v
      [] op = "-" -> 0 - v

\* ObjConstraint._parse_operator with the operator left out of the expression.
ObjParseNoOperator(c, obj) ==
    IF c.operator[1] \notin Prefixes THEN Fail("SyntaxError")
    ELSE Val(obj.value)

\* ObjConstraint._parse_operator.
ObjParse(c, obj) ==
    IF c.operator[1] \notin Prefixes THEN Fail("SyntaxError")
    ELSE Val(Num(ApplyPrefix(c.operator[1], obj.value.v)))

\* The operator strings of a MultiObjConstraint the model evaluates.
TermOperators == {"+", "-", "-2*"}

\* ' p1 op1 p2 op2 ...' evaluated left to right over these operators; acc is
\* the value of the first i-1 terms.
RECURSIVE SumTerms(_, _, _, _)
SumTerms(vals, ops, i, acc) ==
    IF i > Len(vals) THEN acc
    ELSE SumTerms(vals, ops, i + 1,
                  CASE ops[i - 1] = "+" -> acc + vals[i]
                    [] ops[i - 1] = "-" -> acc - vals[i]
                    [] ops[i - 1] = "-2*" -> acc - 2 * vals[i])

\* MultiObjConstraint._parse_operator: 'final_value = {value} - ({in_str})',
\* where in_str appends an operator after the object at idx whenever
\* idx < len(operator): with as many operators as objects the expression
\* ends in an operator and does not evaluate.
MultiParse(c, objs) ==
    LET ids == c.indep.v
        vals == [i \in 1..Len(ids) |-> objs[ids[i]].value.v]
    IN  IF Len(c.operator) >= Len(ids) THEN Fail("SyntaxError")
        ELSE IF \E i \in 1..Len(c.operator) : c.operator[i] \notin TermOperators
             THEN Fail("SyntaxError")
        ELSE IF Len(c.operator) < Len(ids) - 1 THEN Fail("SyntaxError")
        ELSE Val(Num(c.value - SumTerms(vals, c.operator, 2, vals[1])))

\* __call__, lines 113-125: the objects handed to _parse_operator are the
\* independents if there are any, the dependent otherwise.
ParseOperator(S, c) ==
    CASE c.cls = "NumericConstraint" -> NumericParse(c, S.objs[c.dep])
      [] c.cls = "ObjConstraint" -> ObjParse(c, S.objs[c.indep.v[1]])
      [] c.cls = "MultiObjConstraint" -> MultiParse(c, S.objs)
      [] c.cls = "SelfConstraint" -> SelfParse(c, S.objs[c.dep])
      [] c.cls = "FunctionalConstraint" -> FunctionalParse(c, S.objs)

(***************************************************************************)
(* Parameter (spec.md 2, 4.2 and 5): the value setter validates, stores    *)
(* through the undo stack, and then invokes the constraints registered in  *)
(* user_constraints, depth first and in registration order.  A write that  *)
(* a constraint makes to its dependent is such a write again.  depth is    *)
(* the number of constraint invocations that may still nest: the nesting   *)
(* of a cascade is fixed by the constraints alone, so a cascade nesting    *)
(* deeper than there are constraints repeats one of them and never ends    *)
(* (Python raises RecursionError).                                         *)
(***************************************************************************)
\* Parameter.enabled setter.
SetEnabled(S, obj, b) == PropertySet(S, obj, "enabled", Bool(b))

RECURSIVE SetValue(_, _, _, _)
RECURSIVE RunConstraints(_, _, _, _)
RECURSIVE Call(_, _, _)

\* A value setter that ignores the write to a parameter that is not enabled.
SetValueGated(S, obj, value, depth) ==
    IF S.objs[obj].cls = "Parameter" /\ ~S.objs[obj].enabled.v THEN S
    ELSE LET T == PropertySet(S, obj, "value", value)
         IN  IF T.err # "" THEN T
             ELSE IF T.objs[obj].cls # "Parameter" THEN T
             ELSE RunConstraints(T, T.objs[obj].uc, 1, depth)

\* obj.value = value
SetValue(S, obj, value, depth) ==
    LET T == PropertySet(S, obj, "value", value)
    IN  IF T.err # "" THEN T
        ELSE IF T.objs[obj].cls # "Parameter" THEN T
        ELSE RunConstraints(T, T.objs[obj].uc, 1, depth)

\* The constraints registered on a parameter, the last registered first.
RunConstraintsReversed(S, uc, i, depth) ==
    LET RECURSIVE Back(_, _)
        Back(T, j) ==
            IF j < i \/ T.err # "" THEN T
            ELSE Back(Call(T, uc[j], depth), j - 1)
    IN  Back(S, Len(uc))

\* The constraints registered on a parameter, in registration order.
RunConstraints(S, uc, i, depth) ==
    IF i > Len(uc) \/ S.err # "" THEN S
    ELSE RunConstraints(Call(S, uc[i], depth), uc, i + 1, depth)

\* __call__ storing the value without going through the dependent's setter,
\* so that the constraints registered on the dependent are not run.
CallRawWrite(S, k, depth) ==
    LET c == S.cons[k]
        r == ParseOperator(S, c)
        toggle == ~S.objs[c.dep].enabled.v
        S1 == IF toggle THEN SetEnabled(S, c.dep, TRUE) ELSE S
        S2 == PropertySet([S1 EXCEPT !.inv = Append(@, k)], c.dep, "value", r.val)
    IN  IF ~c.enabled THEN S
        ELSE IF depth = 0 THEN [S EXCEPT !.err = "RecursionError"]
        ELSE IF r.err # "" THEN [S EXCEPT !.err = r.err]
        ELSE IF S1.err # "" THEN S1
        ELSE IF S2.err # "" THEN S2
        ELSE IF toggle THEN SetEnabled(S2, c.dep, FALSE)
        ELSE S2

\* __call__ without the test of self.enabled.
CallWhenDisabled(S, k, depth) ==
    LET c == S.cons[k]
        r == ParseOperator(S, c)
        toggle == ~S.objs[c.dep].enabled.v
        S1 == IF toggle THEN SetEnabled(S, c.dep, TRUE) ELSE S
        S2 == SetValue([S1 EXCEPT !.inv = Append(@, k)], c.dep, r.val, depth - 1)
    IN  IF depth = 0 THEN [S EXCEPT !.err = "RecursionError"]
        ELSE IF r.err # "" THEN [S EXCEPT !.err = r.err]
        ELSE IF S1.err # "" THEN S1
        ELSE IF S2.err # "" THEN S2
        ELSE IF toggle THEN SetEnabled(S2, c.dep, FALSE)
        ELSE S2

\* __call__ that does not disable the dependent again after the write.
CallLeavesEnabled(S, k, depth) ==
    LET c == S.cons[k]
        r == ParseOperator(S, c)
        toggle == ~S.objs[c.dep].enabled.v
        S1 == IF toggle THEN SetEnabled(S, c.dep, TRUE) ELSE S
        S2 == SetValue([S1 EXCEPT !.inv = Append(@, k)], c.dep, r.val, depth - 1)
    IN  IF ~c.enabled THEN S
        ELSE IF depth = 0 THEN [S EXCEPT !.err = "RecursionError"]
        ELSE IF r.err # "" THEN [S EXCEPT !.err = r.err]
        ELSE IF S1.err # "" THEN S1
        ELSE S2

\* __call__ enabling the dependent before the value is computed.
CallTogglesFirst(S, k, depth) ==
    LET c == S.cons[k]
        named == {c.dep} \cup {c.indep.v[i] : i \in 1..Len(c.indep.v)}
        P == [S EXCEPT !.cons[k].aeval = Interpreter]
        r == ParseOperator(S, c)
        toggle == ~S.objs[c.dep].enabled.v
        S1 == IF toggle THEN SetEnabled(P, c.dep, TRUE) ELSE P
        S2 == SetValue([S1 EXCEPT !.inv = Append(@, k)], c.dep, r.val, depth - 1)
    IN  IF ~c.enabled THEN S
        ELSE IF depth = 0 THEN [S EXCEPT !.err = "RecursionError"]
        ELSE IF c.ids # "str" THEN [S EXCEPT !.err = "AttributeError"]
        ELSE IF ~(named \subseteq DOMAIN S.objs) THEN [S EXCEPT !.err = "ValueError"]
        ELSE IF S1.err # "" THEN S1
        ELSE IF r.err # "" THEN [S1 EXCEPT !.err = r.err]
        ELSE IF S2.err # "" THEN S2
        ELSE IF toggle THEN SetEnabled(S2, c.dep, FALSE)
        ELSE S2

\* ConstraintBase.__call__ of constraint k (no_set = False): the type of
\* dependent_obj_ids, the lookups in the global map (a ValueError for an
\* id the map does not hold), _parse_operator, which always ends with a new
\* interpreter, and the write to the dependent.
Call(S, k, depth) ==
    LET c == S.cons[k]
        named == {c.dep} \cup {c.indep.v[i] : i \in 1..Len(c.indep.v)}
        P == [S EXCEPT !.cons[k].aeval = Interpreter]
        r == ParseOperator(S, c)
        toggle == ~S.objs[c.dep].enabled.v
        S1 == IF toggle THEN SetEnabled(P, c.dep, TRUE) ELSE P
        S2 == SetValue([S1 EXCEPT !.inv = Append(@, k)], c.dep, r.val, depth - 1)
    IN  IF ~c.enabled THEN S
        ELSE IF depth = 0 THEN [S EXCEPT !.err = "RecursionError"]
        ELSE IF c.ids # "str" THEN [S EXCEPT !.err = "AttributeError"]
        ELSE IF ~(named \subseteq DOMAIN S.objs) THEN [S EXCEPT !.err = "ValueError"]
        ELSE IF r.err # "" THEN [P EXCEPT !.err = r.err]
        ELSE IF S1.err # "" THEN S1
        ELSE IF S2.err # "" THEN S2
        ELSE IF toggle THEN SetEnabled(S2, c.dep, FALSE)
        ELSE S2

\* The nesting allowed to an operation started from outside.
Depth(S) == Cardinality(DOMAIN S.cons)

\* ConstraintBase.__init__ disabling the dependent of every constraint, with
\* or without independents.
ConstraintInitAlwaysDisables(S, k, c) ==
    IF c.indep.t # "none" /\ \E i \in 1..Len(c.indep.v) : c.indep.v[i] = c.dep
    THEN [S EXCEPT !.err = "AttributeError"]
    ELSE IF S.objs[c.dep].cls = "Parameter"
    THEN IF ~S.objs[c.dep].enabled.v
         THEN [S EXCEPT !.err = "AssertionError"]
         ELSE LET T == SetEnabled(S, c.dep, FALSE)
              IN  [T EXCEPT !.cons = (k :> c) @@ @]
    ELSE [S EXCEPT !.cons = (k :> c) @@ @]

\* ConstraintBase.__init__ refusing a dependent whose independents are
\* themselves owned by a constraint.
ConstraintInitFreeIndependents(S, k, c) ==
    IF c.indep.t # "none" /\ \E i \in 1..Len(c.indep.v) : c.indep.v[i] = c.dep
    THEN [S EXCEPT !.err = "AttributeError"]
    ELSE IF c.indep.t # "none" /\ S.objs[c.dep].cls = "Parameter"
    THEN IF \/ ~S.objs[c.dep].enabled.v
            \/ \E i \in 1..Len(c.indep.v) : ~S.objs[c.indep.v[i]].enabled.v
         THEN [S EXCEPT !.err = "AssertionError"]
         ELSE LET T == SetEnabled(S, c.dep, FALSE)
              IN  [T EXCEPT !.cons = (k :> c) @@ @]
    ELSE [S EXCEPT !.cons = (k :> c) @@ @]

\* ConstraintBase.__init__ disabling the dependent before it looks for it
\* among the independents.
ConstraintInitDisableFirst(S, k, c) ==
    LET T == IF c.indep.t # "none" /\ S.objs[c.dep].cls = "Parameter"
             THEN SetEnabled(S, c.dep, FALSE) ELSE S
    IN  IF c.indep.t # "none" /\ \E i \in 1..Len(c.indep.v) : c.indep.v[i] = c.dep
        THEN [T EXCEPT !.err = "AttributeError"]
        ELSE [T EXCEPT !.cons = (k :> c) @@ @]

\* ConstraintBase.__init__ reached from the constructor of a subclass with
\* the object c it is initialising; k is the name the caller keeps it under.
ConstraintInit(S, k, c) ==
    IF c.indep.t # "none" /\ \E i \in 1..Len(c.indep.v) : c.indep.v[i] = c.dep
    THEN [S EXCEPT !.err = "AttributeError"]
    ELSE IF c.indep.t # "none" /\ S.objs[c.dep].cls = "Parameter"
    THEN IF ~S.objs[c.dep].enabled.v
         THEN [S EXCEPT !.err = "AssertionError"]
         ELSE LET T == SetEnabled(S, c.dep, FALSE)
              IN  [T EXCEPT !.cons = (k :> c) @@ @]
    ELSE [S EXCEPT !.cons = (k :> c) @@ @]

\* ConstraintBase.enabled setter that applies the constraint when it is
\* switched off as well.
EnabledSetterApplies(S, k, enabled_value) ==
    IF S.cons[k].enabled = enabled_value THEN S
    ELSE LET S1 == SetEnabled(Call(S, k, Depth(S)), S.cons[k].dep, ~enabled_value)
         IN  [S1 EXCEPT !.cons[k].enabled = enabled_value]

\* ConstraintBase.enabled setter without the early return for an unchanged
\* value.
EnabledSetterReasserts(S, k, enabled_value) ==
    IF enabled_value
    THEN LET S1 == SetEnabled(S, S.cons[k].dep, FALSE)
             S2 == Call(S1, k, Depth(S))
         IN  IF S2.err # "" THEN S2
             ELSE [S2 EXCEPT !.cons[k].enabled = enabled_value]
    ELSE LET S1 == SetEnabled(S, S.cons[k].dep, TRUE)
         IN  [S1 EXCEPT !.cons[k].enabled = enabled_value]

\* ConstraintBase.enabled setter of constraint k.
EnabledSetter(S, k, enabled_value) ==
    IF S.cons[k].enabled = enabled_value THEN S
    ELSE IF enabled_value
    THEN LET S1 == SetEnabled(S, S.cons[k].dep, FALSE)
             S2 == Call(S1, k, Depth(S))
         IN  IF S2.err # "" THEN S2
             ELSE [S2 EXCEPT !.cons[k].enabled = enabled_value]
    ELSE LET S1 == SetEnabled(S, S.cons[k].dep, TRUE)
         IN  [S1 EXCEPT !.cons[k].enabled = enabled_value]

\* __call__ with no_set = True that writes the dependent all the same.
CallNoSetWrites(S, k) ==
    LET c == S.cons[k]
        r == ParseOperator(S, c)
    IN  IF ~c.enabled THEN [state |-> S, value |-> None]
        ELSE IF r.err # "" THEN [state |-> [S EXCEPT !.err = r.err], value |-> None]
        ELSE [state |-> Call(S, k, Depth(S)), value |-> r.val]

\* ConstraintBase.__call__ of constraint k with no_set = True: the state
\* when it returns and the value it returns.
CallNoSet(S, k) ==
    LET c == S.cons[k]
        r == ParseOperator(S, c)
    IN  IF ~c.enabled THEN [state |-> S, value |-> None]
        ELSE IF r.err # "" THEN [state |-> [S EXCEPT !.err = r.err], value |-> None]
        ELSE [state |-> S, value |-> r.val]

\* cleanup_constraint letting the failed lookup through.
CleanupConstraintStrict(S, obj_id, enabled) ==
    IF obj_id \notin DOMAIN S.objs THEN [S EXCEPT !.err = "ValueError"]
    ELSE SetEnabled(S, obj_id, enabled)

\* cleanup_constraint(obj_id, enabled): the ValueError of the lookup of an
\* id that is not in the global map is caught.
CleanupConstraint(S, obj_id, enabled) ==
    IF obj_id \notin DOMAIN S.objs THEN S
    ELSE SetEnabled(S, obj_id, enabled)

\* A function without the argument k.
Without(f, k) == IF DOMAIN f = {k} THEN <<>> ELSE [j \in DOMAIN f \ {k} |-> f[j]]

\* The last reference to constraint k goes away.  The constructor has
\* registered weakref.finalize(self, cleanup_constraint, dependent, True)
\* if the constraint has independents and its dependent is a Parameter.
Finalize(S, k) ==
    LET c == S.cons[k]
        T == [S EXCEPT !.cons = Without(@, k)]
    IN  IF c.indep.t # "none"
           /\ (c.dep \in DOMAIN S.objs => S.objs[c.dep].cls = "Parameter")
        THEN CleanupConstraint(T, c.dep, TRUE)
        ELSE T

\* obj.user_constraints[key] = constraint k, for a new key.
Register(S, obj, k) == [S EXCEPT !.objs[obj].uc = Append(@, k)]

(***************************************************************************)
(* The state machine.                                                      *)
(***************************************************************************)
VARIABLES
    objs,   \* the registered objects, by unique_name
    heap,   \* the scipp variables still referenced, by identity
    cons,   \* the constraint objects constructed so far
    hist,   \* the undo history, most recent entry first
    fut,    \* the redo history, next entry to redo first
    macro,  \* a macro is open
    sten,   \* the undo stack's enabled flag
    last,   \* the operation that produced this state and how it ended
    snap    \* for every entry of hist and fut, the objects before and after it

vars == <<objs, heap, cons, hist, fut, macro, sten, last, snap>>

\* The current state as the record the operators thread.
Here ==
    [objs |-> objs, heap |-> heap, cons |-> cons, hist |-> hist, fut |-> fut,
     macro |-> macro, sten |-> sten, err |-> "", inv |-> <<>>]

\* Equality of two Python values.
Same(x, y) == x.t = y.t /\ x.v = y.v

\* The references to scipp variables held by the commands of a history, in
\* the order of the history.
RECURSIVE CmdRefs(_, _)
CmdRefs(cmds, j) ==
    IF j > Len(cmds) THEN <<>>
    ELSE (IF cmds[j].attr = "array" THEN <<cmds[j].old.v, cmds[j].new.v>> ELSE <<>>)
         \o CmdRefs(cmds, j + 1)

RECURSIVE RefsOf(_, _)
RefsOf(holders, i) ==
    IF i > Len(holders) THEN <<>>
    ELSE CmdRefs(holders[i].cmds, 1) \o RefsOf(holders, i + 1)

\* The DescriptorArray objects, in a fixed order.
ArrayNames == <<"d", "e", "DescriptorArray_0", "DescriptorArray_1">>

RECURSIVE ArrayRefs(_, _)
ArrayRefs(os, i) ==
    IF i > Len(ArrayNames) THEN <<>>
    ELSE (IF ArrayNames[i] \in DOMAIN os THEN <<os[ArrayNames[i]].aid>> ELSE <<>>)
         \o ArrayRefs(os, i + 1)

\* A variable nothing refers to any more is freed.  The identity of a
\* variable has no meaning beyond telling variables apart: the live ones
\* are numbered in the order in which the objects and the histories refer
\* to them.
Collect(T) ==
    LET refs == ArrayRefs(T.objs, 1) \o RefsOf(T.hist, 1) \o RefsOf(T.fut, 1)
        RECURSIVE Distinct(_, _)
        Distinct(i, seen) ==
            IF i > Len(refs) THEN seen
            ELSE IF \E j \in 1..Len(seen) : seen[j] = refs[i]
                 THEN Distinct(i + 1, seen)
                 ELSE Distinct(i + 1, Append(seen, refs[i]))
        live == Distinct(1, <<>>)
        Rank(id) == (CHOOSE j \in 1..Len(live) : live[j] = id) - 1
        ReCmd(c) == IF c.attr = "array"
                    THEN [c EXCEPT !.old = Ref(Rank(@.v)), !.new = Ref(Rank(@.v))]
                    ELSE c
        ReHolder(h) == [h EXCEPT !.cmds = [j \in 1..Len(@) |-> ReCmd(@[j])]]
    IN  IF Len(refs) = 0 THEN [T EXCEPT !.heap = <<>>]
        ELSE IF Len(refs) = 1
        THEN [T EXCEPT !.objs[ArrayNames[1]].aid = 0,
                       !.heap = (0 :> T.heap[refs[1]])]
        ELSE [T EXCEPT
                !.objs = [o \in DOMAIN @ |->
                            IF @[o].cls = "DescriptorArray"
                            THEN [@[o] EXCEPT !.aid = Rank(@)] ELSE @[o]],
                !.heap = [n \in 0..(Len(live) - 1) |-> T.heap[live[n + 1]]],
                !.hist = [i \in 1..Len(@) |-> ReHolder(@[i])],
                !.fut = [i \in 1..Len(@) |-> ReHolder(@[i])]]

\* What can be observed of the objects: everything but the identity of the
\* variables behind the arrays.
View(os) ==
    [o \in DOMAIN os |->
        IF os[o].cls = "DescriptorArray" THEN [os[o] EXCEPT !.aid = 0] ELSE os[o]]

\* Bookkeeping: entry i of snap.h (snap.f) describes entry i of hist (fut):
\* the objects before its first command and after its last one, and whether
\* every change made since went through the stack.
Entry(pre, post) == [pre |-> pre, post |-> post, ok |-> TRUE]

NoEntry == [pre |-> <<>>, post |-> <<>>, ok |-> FALSE]

Spoil(entries) == [i \in 1..Len(entries) |-> NoEntry]

Unknown(n) == [i \in 1..n |-> NoEntry]

SnapAfterWrite(T) ==
    IF T.hist = hist /\ T.fut = fut
    THEN IF View(T.objs) = View(objs) THEN snap
         ELSE [h |-> Spoil(snap.h), f |-> Spoil(snap.f)]
    ELSE IF macro
    THEN [h |-> <<[snap.h[1] EXCEPT !.post = View(T.objs)]>> \o Tail(snap.h), f |-> <<>>]
    ELSE IF Len(T.hist) = Len(hist) + 1 /\ T.err = ""
    THEN [h |-> <<Entry(View(objs), View(T.objs))>> \o snap.h, f |-> <<>>]
    ELSE [h |-> Unknown(Len(T.hist) - Len(hist)) \o Spoil(snap.h), f |-> <<>>]

\* The state after an operation that ended in T.  last remembers the
\* operation, its arguments and its exception, the constraints it invoked,
\* how many undo() or redo() calls in a row it completes, and whether there
\* was something to redo when a write began.  Of a write that raised only
\* the exception is remembered.
Commit(T, op, obj, attr, val, s) ==
    /\ LET N == Collect(T)
       IN  /\ objs' = N.objs
           /\ heap' = N.heap
           /\ hist' = N.hist
           /\ fut' = N.fut
    /\ cons' = T.cons
    /\ macro' = T.macro
    /\ sten' = T.sten
    /\ last' = IF T.err # "" /\ op \in {"set", "convert"}
               THEN [op |-> op, obj |-> "", attr |-> "", val |-> None,
                     err |-> T.err, inv |-> <<>>, n |-> 0, redoable |-> FALSE]
               ELSE [op |-> op, obj |-> obj, attr |-> attr, val |-> val,
                     err |-> T.err, inv |-> T.inv,
                     n |-> IF op \notin {"undo", "redo"} THEN 0
                           ELSE IF last.op = op THEN last.n + 1 ELSE 1,
                     redoable |-> op \in {"set", "convert"} /\ fut # <<>>]
    /\ snap' = s

\* The model stops recording when the history is full.
Commands(holders) ==
    LET RECURSIVE Sum(_)
        Sum(i) == IF i > Len(holders) THEN 0 ELSE Len(holders[i].cmds) + Sum(i + 1)
    IN  Sum(1)

Room ==
    \/ ~sten
    \/ /\ Commands(hist) < MaxCmds
       /\ macro \/ Len(hist) < MaxHist

(***************************************************************************)
(* Inputs.  Array inputs are given in metres and handed over in the unit   *)
(* the descriptor currently has, so that every conversion between "m" and  *)
(* "dm" stays in the integers; variances and errors are exact squares and  *)
(* their roots.                                                            *)
(***************************************************************************)
InUnit(o, attr, raw) ==
    LET f == IF attr = "variance" THEN UnitScale(o.unit) * UnitScale(o.unit)
             ELSE UnitScale(o.unit)
    IN  IF raw.t = "arr" THEN Arr([i \in 1..Len(raw.v) |-> raw.v[i] * f]) ELSE raw

\* value: an array of the right shape, one of the wrong shape, not an array.
ValueInputs == {Arr(<<2>>), Arr(<<1, 1>>), Num(1)}

\* variance: a valid one, a negative one, None.
VarianceInputs == {Arr(<<4>>), Arr(<<0 - 1>>), None}

ErrorInputs == {Arr(<<3>>), None}

\* convert_unit: compatible units, an incompatible one, no unit, no string.
UnitInputs == {Str("m"), Str("dm"), Str("s"), Str("furlong"), Num(1)}

\* The plain attributes of the Parameter and the values written to them.
ParamInputs ==
    {<<"value", Num(2)>>, <<"value", Str("x")>>, <<"min", Num(0)>>,
     <<"max", Num(5)>>, <<"fixed", Bool(TRUE)>>, <<"enabled", Bool(FALSE)>>}

(***************************************************************************)
(* Operations on a DescriptorArray and on the undo stack.                  *)
(***************************************************************************)
\* obj.value = v / obj.variance = v / obj.error = v on a DescriptorArray
WriteArray(obj, attr, raw) ==
    /\ objs[obj].cls = "DescriptorArray"
    /\ Room
    /\ LET v == InUnit(objs[obj], attr, raw)
           T == PropertySet(Here, obj, attr, v)
       IN  Commit(T, "set", obj, attr, v, SnapAfterWrite(T))

\* obj.display_name = v
WriteDisplayName(obj, v) ==
    /\ Room
    /\ LET T == PropertySet(Here, obj, "display_name", v)
       IN  Commit(T, "set", obj, "display_name", v, SnapAfterWrite(T))

\* obj.convert_unit(u)
DoConvertUnit(obj, u) ==
    /\ objs[obj].cls = "DescriptorArray"
    /\ Room
    /\ LET T == ConvertUnit(Here, obj, u)
       IN  Commit(T, "convert", obj, "array", u, SnapAfterWrite(T))

\* obj.<attr> = v on a Parameter
WriteParam(obj, attr, v) ==
    /\ objs[obj].cls = "Parameter"
    /\ Room
    /\ LET T == IF attr = "value" THEN SetValue(Here, obj, v, Depth(Here))
                ELSE PropertySet(Here, obj, attr, v)
       IN  Commit(T, "set", obj, attr, v, SnapAfterWrite(T))

\* stack.undo()
DoUndo ==
    /\ CanUndo(Here)
    /\ Commit(Undo(Here), "undo", "", "", None,
              [h |-> Tail(snap.h), f |-> <<snap.h[1]>> \o snap.f])

\* stack.redo()
DoRedo ==
    /\ CanRedo(Here)
    /\ Commit(Redo(Here), "redo", "", "", None,
              [h |-> <<snap.f[1]>> \o snap.h, f |-> Tail(snap.f)])

\* stack.enabled = b
SetStackEnabled(b) ==
    /\ sten # b
    /\ Commit([Here EXCEPT !.sten = b], "stack", "", "", Bool(b), snap)

\* stack.beginMacro(text)
DoBeginMacro ==
    /\ Len(hist) + Len(fut) < MaxHist
    /\ LET T == BeginMacro(Here, "Macro")
       IN  Commit(T, "begin", "", "", None,
                  IF T.err = "" THEN [snap EXCEPT !.h = <<Entry(View(objs), View(objs))>> \o @]
                  ELSE snap)

\* stack.endMacro()
DoEndMacro ==
    /\ Commit(EndMacro(Here), "end", "", "", None, snap)

(***************************************************************************)
(* Initial states: the objects right after construction, the undo stack    *)
(* disabled and empty.                                                     *)
(***************************************************************************)
NegInf == [t |-> "inf", v |-> 0 - 1]

PosInf == [t |-> "inf", v |-> 1]

\* DescriptorArray(name, [1.0], 'm')
NewArray(name) ==
    [cls |-> "DescriptorArray", name |-> name, value |-> Arr(<<1>>),
     variance |-> None, unit |-> "m", aid |-> 0, display_name |-> Str(name)]

\* Parameter(name, 1.0)
NewParameter(name) ==
    [cls |-> "Parameter", value |-> Num(1), display_name |-> Str(name),
     min |-> NegInf, max |-> PosInf, fixed |-> Bool(FALSE),
     enabled |-> Bool(TRUE), uc |-> <<>>]

NoOp ==
    [op |-> "init", obj |-> "", attr |-> "", val |-> None, err |-> "",
     inv |-> <<>>, n |-> 0, redoable |-> FALSE]

InitObjects ==
    /\ objs = [o \in {"d", "a"} |-> IF o = "d" THEN NewArray(o) ELSE NewParameter(o)]
    /\ heap = (0 :> Content(NewArray("d")))
    /\ cons = <<>>
    /\ hist = <<>>
    /\ fut = <<>>
    /\ macro = FALSE
    /\ last = NoOp
    /\ snap = [h |-> <<>>, f |-> <<>>]

\* The stack has been enabled after the objects were made.
InitStack == InitObjects /\ sten = TRUE

InitOff == InitObjects /\ sten = FALSE

\* Every mutating setter, undo and redo, with the stack enabled.
NextStack ==
    \/ \E raw \in ValueInputs : WriteArray("d", "value", raw)
    \/ \E raw \in VarianceInputs : WriteArray("d", "variance", raw)
    \/ \E raw \in ErrorInputs : WriteArray("d", "error", raw)
    \/ WriteDisplayName("d", Str("D"))
    \/ \E u \in UnitInputs : DoConvertUnit("d", u)
    \/ \E p \in ParamInputs : WriteParam("a", p[1], p[2])
    \/ DoUndo
    \/ DoRedo

SpecStack == InitStack /\ [][NextStack]_vars

\* Macros over writes to two objects.
NextMacro ==
    \/ WriteArray("d", "value", Arr(<<2>>))
    \/ DoConvertUnit("d", Str("dm"))
    \/ WriteParam("a", "value", Num(2))
    \/ DoUndo
    \/ DoRedo
    \/ DoBeginMacro
    \/ DoEndMacro

SpecMacro == InitStack /\ [][NextMacro]_vars

\* Macros over several writes to one attribute.
NextOrder ==
    \/ \E v \in {Num(2), Num(3)} : WriteParam("a", "value", v)
    \/ WriteParam("a", "min", Num(0))
    \/ DoUndo
    \/ DoRedo
    \/ DoBeginMacro
    \/ DoEndMacro

SpecOrder == InitStack /\ [][NextOrder]_vars

\* Writes with the stack switched on and off.
NextOff ==
    \/ \E raw \in {Arr(<<2>>), Num(1)} : WriteArray("d", "value", raw)
    \/ WriteArray("d", "error", Arr(<<3>>))
    \/ WriteParam("a", "value", Num(2))
    \/ DoUndo
    \/ DoRedo
    \/ \E b \in BOOLEAN : SetStackEnabled(b)

SpecOff == InitOff /\ [][NextOff]_vars

\* Writes the setters of a DescriptorArray accept and writes they refuse:
\* a number instead of an array, an array of another shape, a negative
\* element.
NextRefuse ==
    \/ \E raw \in {Arr(<<2>>), Arr(<<3>>), Arr(<<1, 1>>), Num(1)} :
            WriteArray("d", "value", raw)
    \/ \E raw \in {Arr(<<4>>), Arr(<<0 - 1>>), Arr(<<1, 1>>), Num(1)} :
            WriteArray("d", "variance", raw)
    \/ \E raw \in {Arr(<<3>>), Arr(<<0 - 1>>), Arr(<<1, 1>>), Num(1)} :
            WriteArray("d", "error", raw)
    \/ DoUndo
    \/ DoRedo

SpecRefuse == InitStack /\ [][NextRefuse]_vars

\* obj.bounds = (lo, hi) on a Parameter
DoBounds(obj, lo, hi) ==
    /\ objs[obj].cls = "Parameter"
    /\ Room
    /\ LET T == BoundsSetter(Here, obj, lo, hi)
       IN  Commit(T, "bounds", obj, "bounds", [lo |-> lo, hi |-> hi, before |-> objs[obj]],
                  SnapAfterWrite(T))

\* Bounds assigned to a parameter that is enabled or not.
NextBounds ==
    \/ \E hi \in {Num(2), Num(5)} : DoBounds("a", Num(0), hi)
    \/ \E b \in BOOLEAN : WriteParam("a", "enabled", Bool(b))
    \/ \E p \in {<<"min", Num(1)>>, <<"value", Num(2)>>} : WriteParam("a", p[1], p[2])
    \/ DoUndo
    \/ DoRedo

SpecBounds == InitStack /\ [][NextBounds]_vars

(***************************************************************************)
(* Operations on constraints.                                              *)
(***************************************************************************)
\* The independents of a constraint, as a set.
Independents(c) == {c.indep.v[i] : i \in 1..Len(c.indep.v)}

\* k = ObjConstraint(...) and the like: a constraint object that the caller
\* keeps under the name k.  A constructor that raises leaves no object behind.
Construct(k, c) ==
    /\ k \notin DOMAIN cons
    /\ Cardinality(DOMAIN cons) < MaxCons
    /\ LET T == ConstraintInit(Here, k, c)
       IN  Commit(T, "construct", c.dep, "", [k |-> k], SnapAfterWrite(T))

\* obj.user_constraints[key] = k, obj being one of the independents of k
DoRegister(obj, k) ==
    /\ k \in DOMAIN cons
    /\ obj \in Independents(cons[k])
    /\ \A i \in 1..Len(objs[obj].uc) : objs[obj].uc[i] # k
    /\ Commit(Register(Here, obj, k), "register", obj, "", [k |-> k], snap)

\* k.enabled = b
SetConstraintEnabled(k, b) ==
    /\ k \in DOMAIN cons
    /\ Commit(EnabledSetter(Here, k, b), "toggle", cons[k].dep, "",
              [k |-> k, b |-> b, was |-> cons[k].enabled], snap)

\* k()
Invoke(k) ==
    /\ k \in DOMAIN cons
    /\ Commit(Call(Here, k, Depth(Here)), "invoke", cons[k].dep, "",
              [k |-> k, before |-> objs[cons[k].dep].value], snap)

\* The constraints the model constructs, by name: a = 2*b, a = 3*b, c = 3*b,
\* c = 2*a, c = 3 - (a + b), a <= 1, the five comparisons of a with 2, and
\* three that copy a value (a = b, b = a, c = a), a <= a.max, b = abs(b),
\* c = max(a, b), and two that name their dependent among their
\* independents.
Templates ==
    [a2b |-> ObjConstraint("a", "2*", "b"),
     a3b |-> ObjConstraint("a", "3*", "b"),
     c3b |-> ObjConstraint("c", "3*", "b"),
     c2a |-> ObjConstraint("c", "2*", "a"),
     cab |-> MultiObjConstraint(<<"a", "b">>, <<"+">>, "c", 3),
     a1 |-> NumericConstraint("a", "<=", 1),
     eq |-> NumericConstraint("a", "==", 2),
     lt |-> NumericConstraint("a", "<", 2),
     gt |-> NumericConstraint("a", ">", 2),
     le |-> NumericConstraint("a", "<=", 2),
     ge |-> NumericConstraint("a", ">=", 2),
     ab |-> ObjConstraint("a", "", "b"),
     ba |-> ObjConstraint("b", "", "a"),
     ca |-> ObjConstraint("c", "", "a"),
     smax |-> SelfConstraint("a", "<=", "max"),
     fabs |-> FunctionalConstraint("b", "abs", NoIndep),
     fmax |-> FunctionalConstraint("c", "max", ListIndep(<<"a", "b">>)),
     bb |-> ObjConstraint("b", "2*", "b"),
     aba |-> MultiObjConstraint(<<"b", "a">>, <<"+">>, "a", 3)]

InitCons ==
    /\ objs = [o \in {"a", "b", "c"} |-> NewParameter(o)]
    /\ heap = <<>>
    /\ cons = <<>>
    /\ hist = <<>>
    /\ fut = <<>>
    /\ macro = FALSE
    /\ sten = FALSE
    /\ last = NoOp
    /\ snap = [h |-> <<>>, f |-> <<>>]

\* Construction, registration, enabling and disabling, invocation and
\* writes, over constraints that share a dependent or name it among their
\* independents.
ConsNames == {"a2b", "a3b", "c2a", "a1", "bb", "aba"}

NextCons ==
    \/ \E k \in ConsNames : Construct(k, Templates[k])
    \/ \E o \in {"a", "b", "c"}, k \in ConsNames : DoRegister(o, k)
    \/ \E k \in ConsNames, b \in BOOLEAN : SetConstraintEnabled(k, b)
    \/ \E k \in ConsNames : Invoke(k)
    \/ WriteParam("b", "value", Num(2))

SpecCons == InitCons /\ [][NextCons]_vars

\* Writes to a parameter several constraints are registered on.
SyncNames == {"a2b", "a3b", "c3b", "c2a", "cab"}

NextSync ==
    \/ \E k \in SyncNames : Construct(k, Templates[k])
    \/ \E o \in {"a", "b", "c"}, k \in SyncNames : DoRegister(o, k)
    \/ \E k \in SyncNames, b \in BOOLEAN : SetConstraintEnabled(k, b)
    \/ \E v \in {Num(2), Str("x")} : WriteParam("b", "value", v)

SpecSync == InitCons /\ [][NextSync]_vars

\* Numeric constraints on a parameter that is written and clamped.
NumNames == {"eq", "lt", "gt", "le", "ge"}

NextNum ==
    \/ \E k \in NumNames : Construct(k, Templates[k])
    \/ \E k \in NumNames, b \in BOOLEAN : SetConstraintEnabled(k, b)
    \/ \E k \in NumNames : Invoke(k)
    \/ \E v \in {Num(1), Num(2), Num(3)} : WriteParam("a", "value", v)

SpecNum == InitCons /\ [][NextNum]_vars

\* Constraints that can be chained into a cycle, and writes to the
\* parameters they own.
CycleNames == {"ab", "ba", "ca"}

NextCycle ==
    \/ \E k \in CycleNames : Construct(k, Templates[k])
    \/ \E o \in {"a", "b", "c"}, k \in CycleNames : DoRegister(o, k)
    \/ \E k \in CycleNames, b \in BOOLEAN : SetConstraintEnabled(k, b)
    \/ \E o \in {"a", "b"}, v \in {Num(2), Num(3)} : WriteParam(o, "value", v)

SpecCycle == InitCons /\ [][NextCycle]_vars

\* One constraint of every class, constructed, switched and invoked.
CtorNames == {"a1", "smax", "a2b", "cab", "fabs", "fmax"}

NextCtor ==
    \/ \E k \in CtorNames : Construct(k, Templates[k])
    \/ \E k \in CtorNames, b \in BOOLEAN : SetConstraintEnabled(k, b)
    \/ \E k \in CtorNames : Invoke(k)
    \/ \E v \in {Num(0 - 2), Num(3)} : WriteParam("b", "value", v)

SpecCtor == InitCons /\ [][NextCtor]_vars

(***************************************************************************)
(* The life of a constraint: construction, switching, invocation, and the  *)
(* end of the constraint object or of the objects it names.                *)
(***************************************************************************)
\* The objects constraint k names are in the global map.
Alive(k) == {cons[k].dep} \cup Independents(cons[k]) \subseteq DOMAIN objs

\* del k, for a constraint that no user_constraints holds.
Destroy(k) ==
    /\ k \in DOMAIN cons
    /\ \A o \in DOMAIN objs : \A i \in 1..Len(objs[o].uc) : objs[o].uc[i] # k
    /\ Commit(Finalize(Here, k), "destroy", cons[k].dep, "", [k |-> k, c |-> cons[k]], snap)

\* The object obj is removed from the global map.
DeleteObject(obj) ==
    /\ obj \in DOMAIN objs
    /\ Commit([Here EXCEPT !.objs = Without(@, obj)], "delete", obj, "", None, snap)

\* cleanup_constraint(obj_id, b) called directly.
DoCleanup(obj_id, b) ==
    Commit(CleanupConstraint(Here, obj_id, b), "cleanup", obj_id, "", Bool(b), snap)

\* k(no_set=True)
DoEvaluate(k) ==
    /\ k \in DOMAIN cons
    /\ Alive(k)
    /\ LET R == CallNoSet(Here, k)
       IN  Commit(R.state, "evaluate", cons[k].dep, "", [k |-> k, ret |-> R.value], snap)

\* a = 2*b, c = 2*a and a <= 1, made, switched and dropped.
LifeNames == {"a2b", "c2a", "a1"}

NextLife ==
    \/ \E k \in LifeNames :
            /\ {Templates[k].dep} \cup Independents(Templates[k]) \subseteq DOMAIN objs
            /\ Construct(k, Templates[k])
    \/ \E k \in LifeNames, b \in BOOLEAN : k \in DOMAIN cons /\ Alive(k)
                                               /\ SetConstraintEnabled(k, b)
    \/ \E k \in LifeNames : Destroy(k)
    \/ DeleteObject("a")

SpecLife == InitCons /\ [][NextLife]_vars

\* Two of these constraints with the stack switched on at some point:
\* writes, invocations with and without no_set, direct calls of
\* cleanup_constraint, and the end of a constraint or of its dependent.
EvalNames == {"a2b", "a1"}

NextEval ==
    \/ \E k \in EvalNames :
            /\ Room
            /\ {Templates[k].dep} \cup Independents(Templates[k]) \subseteq DOMAIN objs
            /\ Construct(k, Templates[k])
    \/ SetStackEnabled(TRUE)
    \/ WriteParam("b", "value", Num(2))
    \/ \E k \in EvalNames : Room /\ k \in DOMAIN cons /\ Alive(k) /\ Invoke(k)
    \/ \E k \in EvalNames : DoEvaluate(k)
    \/ \E o \in {"a", "b"}, b \in BOOLEAN : Room /\ DoCleanup(o, b)
    \/ \E k \in EvalNames : Room /\ Destroy(k)
    \/ DeleteObject("a")

SpecEval == InitCons /\ [][NextEval]_vars

(***************************************************************************)
(* Constraints on a quantity whose value is an array.  Such a quantity     *)
(* offers what spec.md 6 asks of a dependent: the raw value, the value     *)
(* setter and the enabled flag; here it also has a numeric attribute max.   *)
(***************************************************************************)
\* An enabled array quantity with the given values, in metres.
NewQuantity(name, values, id) ==
    [cls |-> "DescriptorArray", name |-> name, value |-> Arr(values),
     variance |-> None, unit |-> "m", aid |-> id, display_name |-> Str(name),
     enabled |-> Bool(TRUE), max |-> Num(2)]

\* d <= 2, d <= d.max, and the same for e.
ArrayTemplates ==
    [dle |-> NumericConstraint("d", "<=", 2),
     dmax |-> SelfConstraint("d", "<=", "max"),
     ele |-> NumericConstraint("e", "<=", 2),
     emax |-> SelfConstraint("e", "<=", "max")]

\* d holds one element and e two.
InitQuantities ==
    /\ objs = [o \in {"d", "e"} |->
                IF o = "d" THEN NewQuantity(o, <<1>>, 0) ELSE NewQuantity(o, <<1, 1>>, 1)]
    /\ heap = [id \in {0, 1} |-> Content(objs[IF id = 0 THEN "d" ELSE "e"])]
    /\ cons = <<>>
    /\ hist = <<>>
    /\ fut = <<>>
    /\ macro = FALSE
    /\ sten = FALSE
    /\ last = NoOp
    /\ snap = [h |-> <<>>, f |-> <<>>]

NextQuantities ==
    \/ \E k \in DOMAIN ArrayTemplates : Construct(k, ArrayTemplates[k])
    \/ \E k \in DOMAIN ArrayTemplates, b \in BOOLEAN : SetConstraintEnabled(k, b)
    \/ \E k \in DOMAIN ArrayTemplates : Invoke(k)
    \/ \E v \in {1, 3} : WriteArray("d", "value", Arr(<<v>>))
    \/ \E v \in {<<1, 1>>, <<1, 3>>, <<3, 3>>} : WriteArray("e", "value", Arr(v))

SpecQuantities == InitQuantities /\ [][NextQuantities]_vars

(***************************************************************************)
(* MultiObjConstraint with as many operators as independents and with one  *)
(* fewer.                                                                  *)
(***************************************************************************)
\* The example of the docstring, a + b - 2*c = 0, the same relation with
\* the operator list one shorter, and a + b + c = 3.
MultiTemplates ==
    [doc |-> MultiObjConstraint(<<"b", "c">>, <<"+", "-2*">>, "a", 0),
     m2c |-> MultiObjConstraint(<<"b", "c">>, <<"-2*">>, "a", 0),
     sum |-> MultiObjConstraint(<<"b", "c">>, <<"+">>, "a", 3)]

NextMulti ==
    \/ \E k \in DOMAIN MultiTemplates : Construct(k, MultiTemplates[k])
    \/ \E k \in DOMAIN MultiTemplates : SetConstraintEnabled(k, FALSE)
    \/ \E k \in DOMAIN MultiTemplates : Invoke(k)
    \/ \E o \in {"b", "c"}, v \in {Num(2), Num(3)} : WriteParam(o, "value", v)

SpecMulti == InitCons /\ [][NextMulti]_vars

(***************************************************************************)
(* The value a NumericConstraint computes.                                 *)
(***************************************************************************)
\* The five comparisons of a with 2, evaluated without writing for the
\* values below, at and above the limit.
NextClamp ==
    \/ \E k \in NumNames : Construct(k, Templates[k])
    \/ \E k \in NumNames : SetConstraintEnabled(k, FALSE)
    \/ \E k \in NumNames : DoEvaluate(k)
    \/ \E v \in {Num(1), Num(2), Num(3)} : WriteParam("a", "value", v)

SpecClamp == InitCons /\ [][NextClamp]_vars

(***************************************************************************)
(* A constraint switched off and on again.                                 *)
(***************************************************************************)
\* The constraint object c with a note of the enabled flag its dependent had
\* when the constructor returned.
Born(c, b) == [f \in DOMAIN c \cup {"born"} |-> IF f = "born" THEN b ELSE c[f]]

\* k = ObjConstraint(...) and the like, as Construct, noting the flag.
ConstructNoting(k, c) ==
    /\ k \notin DOMAIN cons
    /\ Cardinality(DOMAIN cons) < MaxCons
    /\ LET T == ConstraintInit(Here, k, c)
           U == IF T.err # "" THEN T
                ELSE [T EXCEPT !.cons[k] = Born(@, T.objs[c.dep].enabled.v)]
       IN  Commit(U, "construct", c.dep, "", [k |-> k], snap)

\* a = 2*b, c = 3 - (a + b), a <= 1 and a <= a.max.
ToggleNames == {"a2b", "cab", "a1", "smax"}

NextToggle ==
    \/ \E k \in ToggleNames : ConstructNoting(k, Templates[k])
    \/ \E k \in ToggleNames, b \in BOOLEAN : SetConstraintEnabled(k, b)
    \/ \E k \in ToggleNames : Invoke(k)
    \/ WriteParam("b", "value", Num(2))

SpecToggle == InitCons /\ [][NextToggle]_vars

(***************************************************************************)
(* A write to an independent with the stack enabled: the constraint        *)
(* registered on it writes its dependent through the dependent's setters.  *)
(***************************************************************************)
\* The stack is enabled before the constraints are made.
InitLinked ==
    /\ objs = [o \in {"a", "b", "c"} |-> NewParameter(o)]
    /\ heap = <<>>
    /\ cons = <<>>
    /\ hist = <<>>
    /\ fut = <<>>
    /\ macro = FALSE
    /\ sten = TRUE
    /\ last = NoOp
    /\ snap = [h |-> <<>>, f |-> <<>>]

\* obj.value = v, the objects before the write being remembered
WriteNoting(obj, v) ==
    /\ Room
    /\ LET T == SetValue(Here, obj, v, Depth(Here))
       IN  Commit(T, "write", obj, "value", [v |-> v, before |-> objs],
                  SnapAfterWrite(T))

\* a = 2*b and a = b, registered on b; b is written, undo and redo.
NextLinked ==
    \/ \E k \in {"a2b", "ab"} : Construct(k, Templates[k])
    \/ \E k \in {"a2b", "ab"} : DoRegister("b", k)
    \/ \E v \in {Num(2), Num(3)} : WriteNoting("b", v)
    \/ DoUndo
    \/ DoRedo

SpecLinked == InitLinked /\ [][NextLinked]_vars

(***************************************************************************)
(* Invocations that fail: a constraint whose expression does not evaluate, *)
(* an object that has left the global map, a dependent_obj_ids that is no  *)
(* string.                                                                 *)
(***************************************************************************)
\* c = 3*b, c = '* b' (no expression), and a = 0 - (b + c -2*) (the same).
FailTemplates ==
    [c3b |-> Templates.c3b,
     bad |-> ObjConstraint("c", "*", "b"),
     doc |-> MultiTemplates.doc]

\* k(), whatever has become of the objects k names
DoCall(k) ==
    /\ k \in DOMAIN cons
    /\ Commit(Call(Here, k, Depth(Here)), "call", cons[k].dep, "", [k |-> k], snap)

\* k.dependent_obj_ids = [k.dependent_obj_ids]
Reassign(k) ==
    /\ k \in DOMAIN cons
    /\ cons[k].ids = "str"
    /\ Commit([Here EXCEPT !.cons[k].ids = "list"], "reassign", cons[k].dep, "",
              [k |-> k], snap)

NextFail ==
    \/ \E k \in DOMAIN FailTemplates :
            /\ {"a", "b", "c"} \subseteq DOMAIN objs
            /\ Construct(k, FailTemplates[k])
    \/ \E k \in DOMAIN FailTemplates : DoCall(k)
    \/ \E k \in DOMAIN FailTemplates : Reassign(k)
    \/ \E o \in {"b", "c"} : DeleteObject(o)
    \/ "b" \in DOMAIN objs /\ \E v \in {Num(2), Num(3)} : WriteParam("b", "value", v)

SpecFail == InitCons /\ [][NextFail]_vars

(***************************************************************************)
(* Construction of a DescriptorArray and assignments to its read-only      *)
(* properties.                                                             *)
(***************************************************************************)
\* obj = DescriptorArray(obj, value, unit, variance); nothing is made when
\* the constructor raises.
DoConstruct(obj, value, unit, variance) ==
    /\ obj \notin DOMAIN objs
    /\ Room
    /\ LET T == DescriptorArrayInit(Here, obj, value, unit, variance, obj)
           U == IF T.err = "" THEN T ELSE [Here EXCEPT !.err = T.err]
       IN  Commit(U, "construct", obj, "", unit,
                  IF U.hist = hist THEN snap
                  ELSE [h |-> Unknown(Len(U.hist) - Len(hist)) \o Spoil(snap.h),
                        f |-> <<>>])

\* obj.unit = v / obj.full_value = v
AssignReadOnly(obj, attr, v) ==
    /\ obj \in DOMAIN objs
    /\ LET r == IF attr = "unit" THEN UnitSetter(objs[obj], v)
                ELSE FullValueSetter(objs[obj], v)
           T == [Here EXCEPT !.objs[obj] = r.obj,
                             !.heap[r.obj.aid] = Content(r.obj),
                             !.err = r.err]
       IN  Commit(T, "assign", obj, attr, v, SnapAfterWrite(T))

\* No object yet; the stack enabled or not.
InitEmpty ==
    /\ objs = <<>>
    /\ heap = <<>>
    /\ cons = <<>>
    /\ hist = <<>>
    /\ fut = <<>>
    /\ macro = FALSE
    /\ sten \in BOOLEAN
    /\ last = NoOp
    /\ snap = [h |-> <<>>, f |-> <<>>]

\* The life of one DescriptorArray: construction (the value an array or
\* not, the unit a unit, no unit or no string, the variance none, valid,
\* negative, misshapen or no array), the setters, the read-only properties,
\* convert_unit, undo and redo.
NextVar ==
    \/ \E v \in {Arr(<<1>>), Num(1)},
          u \in {Str("m"), Str("furlong"), Num(1)},
          w \in {None, Arr(<<4>>), Arr(<<0 - 1>>), Arr(<<4, 4>>), Num(4)} :
            DoConstruct("d", v, u, w)
    \/ "d" \in DOMAIN objs /\ \E raw \in {Arr(<<2>>), Arr(<<1, 1>>)} :
            WriteArray("d", "value", raw)
    \/ "d" \in DOMAIN objs
            /\ \E raw \in {Arr(<<4>>), Arr(<<0 - 1>>), Arr(<<4, 4>>), None} :
                    WriteArray("d", "variance", raw)
    \/ "d" \in DOMAIN objs /\ \E raw \in {Arr(<<3>>), Arr(<<0 - 3>>), None} :
            WriteArray("d", "error", raw)
    \/ "d" \in DOMAIN objs /\ \E u \in {Str("dm"), Str("m")} : DoConvertUnit("d", u)
    \/ \E v \in {Str("s"), Str("dm")} : AssignReadOnly("d", "unit", v)
    \/ AssignReadOnly("d", "full_value", Arr(<<7>>))
    \/ DoUndo
    \/ DoRedo

SpecVar == InitEmpty /\ [][NextVar]_vars

\* Units with and without a number in them: construction, convert_unit,
\* value writes, undo and redo.
NextUnit ==
    \/ \E u \in {Str("m"), Str("dm"), Str("1000"), Str("dimensionless"), Str("")} :
            DoConstruct("d", Arr(<<1000>>), u, None)
    \/ "d" \in DOMAIN objs
            /\ \E u \in {Str("m"), Str("dm"), Str("1000"), Str("dimensionless"), Str("")} :
                    DoConvertUnit("d", u)
    \/ "d" \in DOMAIN objs /\ WriteArray("d", "value", Arr(<<2>>))
    \/ DoUndo
    \/ DoRedo

SpecUnit == InitEmpty /\ [][NextUnit]_vars

(***************************************************************************)
(* Arithmetic: two arrays d (a length) and e (a pure number), a            *)
(* DescriptorNumber n (a length), bare numbers and lists.  The caller      *)
(* lets go of the previous result before the next operation.               *)
(***************************************************************************)
Permanent == {"d", "e", "n"}

\* An operand named by the caller: an object by its name, or a value.
Named(o) == [t |-> "name", v |-> o]

Operand(os, x) == IF x.t = "name" THEN Obj(os[x.v]) ELSE x

\* The outcome T of an operation, unless its unit is outside the model.
CommitModelled(T, self, method, other) ==
    /\ T.err # "Unmodelled"
    /\ Commit(T, "arith", self, method, other, snap)

\* result = self <op> other (the methods without r), result = other <op> self
\* (the methods with r, which Python calls when other is no DescriptorArray).
\* Operations whose unit is outside the units of the model are left out.
DoArith(method, self, other) ==
    /\ method \in {"__radd__", "__rsub__", "__rmul__", "__rtruediv__", "__rpow__"}
            => ~(other.t = "name" /\ objs[other.v].cls = "DescriptorArray")
    /\ CommitModelled(Binary([Here EXCEPT !.objs = [k \in Permanent |-> @[k]]],
                              method, self, Operand(objs, other)),
                       self, method, other)

InitArith ==
    /\ \E x \in {<<10, 20>>, <<10, 0>>}, z \in {0, 20} :
            /\ objs = [o \in Permanent |->
                        CASE o = "d" -> [NewArray(o) EXCEPT !.value = Arr(x),
                                                            !.variance = Arr(<<100, 100>>),
                                                            !.aid = 0]
                          [] o = "e" -> [NewArray(o) EXCEPT !.value = Arr(<<2, 4>>),
                                                            !.unit = "dimensionless",
                                                            !.aid = 1]
                          [] o = "n" -> [cls |-> "DescriptorNumber", name |-> o,
                                         value |-> Arr(<<z>>), variance |-> Arr(<<100>>),
                                         unit |-> "dm", display_name |-> Str(o)]]
            /\ heap = [id \in {0, 1} |-> Content(objs[IF id = 0 THEN "d" ELSE "e"])]
    /\ cons = <<>>
    /\ hist = <<>>
    /\ fut = <<>>
    /\ macro = FALSE
    /\ sten = FALSE
    /\ last = NoOp
    /\ snap = [h |-> <<>>, f |-> <<>>]

NextArith ==
    \/ \E method \in {"__add__", "__radd__", "__sub__", "__rsub__", "__mul__",
                       "__rmul__", "__truediv__", "__rtruediv__", "__pow__", "__rpow__"},
          self \in {"d", "e"},
          other \in {Num(0), Num(2), Arr(<<2, 0>>), Arr(<<2, 4>>),
                     Named("d"), Named("e"), Named("n")} :
            DoArith(method, self, other)
    \/ \E u \in {Str("dm"), Str("m")} : DoConvertUnit("d", u)

SpecArith == InitArith /\ [][NextArith]_vars

(***************************************************************************)
(* Arithmetic and construction with the stack enabled.  The commands a     *)
(* result leaves in the histories keep the result alive; the model does    *)
(* not undo or redo once a history holds such a command.                   *)
(***************************************************************************)
\* Every command of the histories holders is one of d, e or n.
OnlyPermanent(holders) ==
    \A i \in 1..Len(holders) :
        \A j \in 1..Len(holders[i].cmds) : holders[i].cmds[j].obj \in Permanent

NextPure ==
    \/ sten /\ Room
            /\ \E method \in {"__add__", "__radd__", "__sub__", "__rsub__",
                               "__mul__", "__rmul__", "__truediv__", "__rtruediv__"},
                   other \in {Named("e"), Named("n")} :
                    DoArith(method, "d", other)
    \/ DoConstruct("DescriptorArray_1", Arr(<<1, 1>>), Str("m"), None)
    \/ WriteArray("d", "value", Arr(<<2, 2>>))
    \/ OnlyPermanent(hist) /\ DoUndo
    \/ OnlyPermanent(fut) /\ DoRedo
    \/ SetStackEnabled(TRUE)

SpecPure == InitArith /\ [][NextPure]_vars

(***************************************************************************)
(* The undo/redo stack: properties.                                        *)
(***************************************************************************)
\* C1: undo/redo round trip.  With every mutation (value, variance, error,
\* convert_unit, display_name, and min, max, fixed, enabled of a Parameter)
\* going through the enabled stack, the objects are always in the state
\* recorded after the most recent entry of the undo history and in the
\* state recorded before the next entry of the redo history; so N undo()
\* calls after N mutations restore the state before the first of them and
\* N redo() calls restore the state after the last.
UndoRedoRoundTrip ==
    /\ (hist # <<>> /\ snap.h[1].ok) => View(objs) = snap.h[1].post
    /\ (fut # <<>> /\ snap.f[1].ok) => View(objs) = snap.f[1].pre

\* Two mutations have been undone and redone again, and they changed something.
RoundTripDone ==
    /\ last.op = "redo" /\ last.n = 2 /\ fut = <<>>
    /\ snap.h[1].ok /\ snap.h[2].ok
    /\ snap.h[2].pre # snap.h[2].post
    /\ snap.h[1].pre # snap.h[1].post

\* C2: a macro is one undo/redo unit.  When undo() returns after a macro
\* entry was undone, the objects are in the state they were in at
\* beginMacro: all of its commands are reverted, on whatever objects; when
\* redo() returns after it was redone, they are in the state they were in
\* at endMacro.
MacroAtomic ==
    /\ (last.op = "undo" /\ fut[1].text = "Macro" /\ snap.f[1].ok)
          => View(objs) = snap.f[1].pre
    /\ (last.op = "redo" /\ hist[1].text = "Macro" /\ snap.h[1].ok)
          => View(objs) = snap.h[1].post

\* A macro of commands on two different objects has been undone and redone.
MacroRedone ==
    /\ last.op = "redo" /\ hist[1].text = "Macro" /\ snap.h[1].ok
    /\ Len(hist[1].cmds) >= 2
    /\ \E i, j \in 1..Len(hist[1].cmds) : hist[1].cmds[i].obj # hist[1].cmds[j].obj
    /\ \A o \in DOMAIN objs : snap.h[1].pre[o] # snap.h[1].post[o]

\* C3: push clears the redo history.  After a write or a convert_unit that
\* returned with the stack enabled, there is nothing to redo and the most
\* recent command of the undo history is the one of this write.
PushClearsRedo ==
    (last.op \in {"set", "convert"} /\ last.err = "" /\ sten)
        => /\ fut = <<>>
           /\ ~CanRedo(Here)
           /\ hist # <<>>
           /\ hist[1].cmds # <<>>
           /\ hist[1].cmds[1].obj = last.obj
           /\ hist[1].cmds[1].attr = last.attr
           /\ IF last.op = "convert"
              THEN hist[1].cmds[1].new.v = objs[last.obj].aid
              ELSE Same(hist[1].cmds[1].new, last.val)

\* A write was made after an undo().
PushedAfterUndo ==
    last.op \in {"set", "convert"} /\ last.err = "" /\ sten /\ last.redoable

\* C4: with the stack disabled a setter performs its mutation and leaves
\* the undo history and the redo history as they were.
DisabledStackFrame ==
    [][(last'.op = "set" /\ last'.err = "" /\ ~sten)
          => /\ hist' = hist
             /\ fut' = fut
             /\ Same(GetAttr(objs'[last'.obj], last'.attr), last'.val)]_vars

\* A write was made with the stack disabled and both histories not empty.
WroteWhileDisabled ==
    last.op = "set" /\ last.err = "" /\ ~sten /\ hist # <<>> /\ fut # <<>>

(***************************************************************************)
(* Constraints: properties.                                                *)
(***************************************************************************)
\* The constraint the last operation was about.
LastK == last.val.k

\* C5: constructing a constraint whose dependent is its independent, or one
\* of its independents, raises AttributeError, leaves the dependent's
\* enabled flag as it was and makes no constraint.
SelfReferenceRaises ==
    [][(last'.op = "construct" /\ last'.obj \in Independents(Templates[LastK']))
          => /\ last'.err = "AttributeError"
             /\ objs'[last'.obj].enabled = objs[last'.obj].enabled
             /\ cons' = cons]_vars

\* A constructor was refused for self-reference while its dependent was enabled.
SelfReferenceRefused ==
    /\ last.op = "construct" /\ last.err = "AttributeError"
    /\ Templates[LastK].indep.t = "list"
    /\ objs[last.obj].enabled.v

\* C6: when b.value = x returns, the dependent of every enabled
\* ObjConstraint registered on b has the value 'op x'.
SyncOnWrite ==
    [][(last'.op = "set" /\ last'.attr = "value" /\ last'.err = "")
          => \A i \in 1..Len(objs[last'.obj].uc) :
                LET c == cons[objs[last'.obj].uc[i]]
                IN  (c.cls = "ObjConstraint" /\ c.enabled)
                       => objs'[c.dep].value.v
                             = ApplyPrefix(c.operator[1], last'.val.v)]_vars

\* The last of the constraints invoked, in the order inv, that has the
\* dependent dep ("" if there is none).
RECURSIVE LastWriter(_, _, _, _)
LastWriter(inv, cs, dep, i) ==
    IF i < 1 THEN ""
    ELSE IF cs[inv[i]].dep = dep THEN inv[i]
    ELSE LastWriter(inv, cs, dep, i - 1)

\* What does hold of such a write: the dependent of an enabled ObjConstraint
\* registered on b has the value 'op x' if that constraint is the last one
\* invoked by the write that has this dependent.
SyncOnWriteLastWriter ==
    [][(last'.op = "set" /\ last'.attr = "value" /\ last'.err = "")
          => \A i \in 1..Len(objs[last'.obj].uc) :
                LET k == objs[last'.obj].uc[i]
                    c == cons[k]
                    w == LastWriter(last'.inv, cons, c.dep, Len(last'.inv))
                IN  (c.cls = "ObjConstraint" /\ c.enabled /\ w = k)
                       => objs'[c.dep].value.v
                             = ApplyPrefix(c.operator[1], last'.val.v)]_vars

\* A write to b has just set the dependents of two constraints registered on it.
TwoSynchronised ==
    /\ last.op = "set" /\ last.obj = "b" /\ last.err = "" /\ last.val.v = 2
    /\ objs["b"].uc = <<"a2b", "c3b">>
    /\ cons["a2b"].enabled /\ cons["c3b"].enabled
    /\ objs["a"].value.v = 4 /\ objs["c"].value.v = 6

\* C7: whenever an operation has returned, the dependent of an enabled
\* constraint with independents is disabled; and constructing, invoking or
\* toggling a constraint, or writing to one of its independents, leaves the
\* enabled flag of its independents as it was.
EnabledImpliesDependentDisabled ==
    [][/\ \A k \in DOMAIN cons' :
              (cons'[k].indep.t # "none" /\ cons'[k].enabled)
                 => ~objs'[cons'[k].dep].enabled.v
       /\ (last'.op \in {"construct", "toggle", "invoke"} /\ LastK' \in DOMAIN cons')
             => \A o \in Independents(cons'[LastK']) :
                   objs'[o].enabled = objs[o].enabled
       /\ (last'.op = "set" /\ last'.attr = "value")
             => objs'[last'.obj].enabled = objs[last'.obj].enabled]_vars

\* C8: k.enabled = False on an enabled constraint enables the dependent,
\* disables the constraint, raises nothing, and leaves the value of the
\* dependent and the value and the enabled flag of every independent as they
\* were.
DisableFrame ==
    [][(last'.op = "toggle" /\ last'.val.was /\ ~last'.val.b)
          => LET c == cons[LastK']
             IN  /\ last'.err = ""
                 /\ ~cons'[LastK'].enabled
                 /\ objs'[c.dep].enabled.v
                 /\ objs'[c.dep].value = objs[c.dep].value
                 /\ \A o \in Independents(c) :
                       /\ objs'[o].value = objs[o].value
                       /\ objs'[o].enabled = objs[o].enabled]_vars

\* A constraint was switched off whose dependent did not have the value of
\* the constraint's expression.
DisabledOutOfStep ==
    /\ last.op = "toggle" /\ last.val.was /\ ~last.val.b
    /\ cons[LastK].cls = "ObjConstraint"
    /\ objs[cons[LastK].dep].enabled.v
    /\ objs[cons[LastK].dep].value # ParseOperator(Here, cons[LastK]).val

\* C9: k.enabled = True on a disabled constraint with independents leaves
\* the constraint enabled, its dependent disabled, and the dependent's value
\* equal to the constraint's expression of the values the independents have
\* now.
EnableApplies ==
    [][(/\ last'.op = "toggle" /\ ~last'.val.was /\ last'.val.b
        /\ last'.err = "" /\ cons[LastK'].indep.t # "none")
          => LET c == cons[LastK']
             IN  /\ cons'[LastK'].enabled
                 /\ ~objs'[c.dep].enabled.v
                 /\ objs'[c.dep].value = ParseOperator([objs |-> objs'], c).val]_vars

\* C10: after k() on an enabled NumericConstraint(dep, op, L) whose dependent
\* had the scalar value v, the dependent has the value v if 'v op L' is true
\* and L if it is not.
NumericClamp ==
    (/\ last.op = "invoke" /\ cons[LastK].cls = "NumericConstraint"
     /\ cons[LastK].enabled /\ last.val.before.t = "num")
        => LET c == cons[LastK]
               v == last.val.before.v
           IN  /\ last.err = ""
               /\ c.operator[1] \in Comparisons
               /\ objs[c.dep].value
                     = Num(IF Compare(c.operator[1], v, c.value) THEN v ELSE c.value)

\* A value above the limit of a '<=' constraint was brought down to it.
ClampedToLimit ==
    /\ last.op = "invoke" /\ last.err = "" /\ cons[LastK].enabled
    /\ cons[LastK].operator = <<"<=">>
    /\ last.val.before.v > cons[LastK].value
    /\ objs[cons[LastK].dep].value.v = cons[LastK].value

\* C11: a write to the value of a Parameter that is not enabled, because a
\* constraint owns it, stores the written value and leaves the Parameter
\* not enabled.
OwnedWriteStores ==
    [][(/\ last'.op = "set" /\ last'.attr = "value" /\ last'.err = ""
        /\ ~objs[last'.obj].enabled.v)
          => /\ Same(objs'[last'.obj].value, last'.val)
             /\ ~objs'[last'.obj].enabled.v]_vars

\* A new value was written to a parameter owned by an enabled constraint.
WroteToOwned ==
    /\ last.op = "set" /\ last.err = "" /\ last.obj = "b" /\ last.val.v = 3
    /\ "ba" \in DOMAIN cons /\ cons["ba"].enabled
    /\ ~objs["b"].enabled.v /\ objs["b"].value.v = 3 /\ objs["a"].value.v # 3

\* The parameters that parameter o depends on through one enabled constraint.
DependsOn(cs, o) ==
    UNION {Independents(cs[k]) : k \in {j \in DOMAIN cs : cs[j].enabled /\ cs[j].dep = o}}

\* The parameters that o depends on through at most n enabled constraints.
RECURSIVE Upstream(_, _, _)
Upstream(cs, os, n) ==
    IF n = 0 THEN os
    ELSE Upstream(cs, os \cup UNION {DependsOn(cs, o) : o \in os}, n - 1)

\* A parameter depends on itself through the enabled constraints.
Cyclic(cs) ==
    \E o \in DOMAIN objs : o \in Upstream(cs, DependsOn(cs, o), Cardinality(DOMAIN objs))

\* C12 as claimed: the enabled constraints never make a parameter depend on
\* itself.
NoConstraintCycle == ~Cyclic(cons)

\* C12 as amended: a constructor raises AttributeError exactly when the
\* dependent is among its own independents, and otherwise AssertionError
\* exactly when it has independents and the dependent is not enabled; every
\* other construction makes the constraint, also the one that closes a cycle
\* through another parameter.
OnlySelfReferenceRejected ==
    [][(last'.op = "construct")
          => LET c == Templates[LastK']
             IN  /\ last'.err =
                       IF c.dep \in Independents(c) THEN "AttributeError"
                       ELSE IF c.indep.t # "none" /\ ~objs[c.dep].enabled.v
                       THEN "AssertionError"
                       ELSE ""
                 /\ (last'.err = "") => /\ LastK' \in DOMAIN cons'
                                        /\ cons'[LastK'] = c
                 /\ (last'.err # "") => cons' = cons]_vars

\* The constructor has just closed a cycle of two enabled constraints.
CycleClosed ==
    /\ last.op = "construct" /\ last.err = "" /\ LastK = "ba"
    /\ "ab" \in DOMAIN cons /\ cons["ab"].enabled /\ cons["ba"].enabled
    /\ Cyclic(cons)

\* C13: at most one enabled constraint with independents has a given
\* parameter as its dependent.
SingleOwner ==
    \A k1, k2 \in DOMAIN cons :
        (/\ k1 # k2
         /\ cons[k1].enabled /\ cons[k2].enabled
         /\ cons[k1].indep.t # "none" /\ cons[k2].indep.t # "none")
            => cons[k1].dep # cons[k2].dep

\* C14 as claimed: a constructor that returns leaves its dependent not
\* enabled, whatever the class of the constraint.
ConstructionDisables ==
    [][(last'.op = "construct" /\ last'.err = "")
          => ~objs'[last'.obj].enabled.v]_vars

\* C14 as amended: a constructor that returns leaves its dependent not
\* enabled if the constraint has independents (ObjConstraint,
\* MultiObjConstraint, FunctionalConstraint with independents), and leaves
\* the dependent's enabled flag as it was if it has none (NumericConstraint,
\* SelfConstraint, FunctionalConstraint without independents).
ConstructionDisablesOwned ==
    [][(last'.op = "construct" /\ last'.err = "")
          => IF Templates[LastK'].indep.t # "none"
             THEN ~objs'[last'.obj].enabled.v
             ELSE objs'[last'.obj].enabled = objs[last'.obj].enabled]_vars

\* Constraints of four classes have been made, two with independents and
\* two without: the dependents of the first two are not enabled, those of
\* the others are.
OwnedAndFree ==
    /\ last.op = "construct" /\ last.err = ""
    /\ \E k1, k2 \in DOMAIN cons :
          /\ cons[k1].cls = "FunctionalConstraint" /\ cons[k1].indep.t = "list"
          /\ ~objs[cons[k1].dep].enabled.v
          /\ cons[k2].cls \in {"NumericConstraint", "SelfConstraint"}
          /\ objs[cons[k2].dep].enabled.v

\* The value, the unit and the variance of a descriptor.
Triple(o) == <<o.value, o.unit, o.variance>>

\* C15: with the stack enabled a convert_unit that returns adds exactly one
\* entry of one command to the undo history; undo() of that entry brings
\* back the value, the unit and the variance the descriptor had before the
\* conversion, and redo() of it those it had after the conversion; no other
\* object changes.
ConvertIsOneUnit ==
    [][/\ (last'.op = "convert" /\ last'.err = "")
             => /\ Len(hist') = Len(hist) + 1
                /\ Len(hist'[1].cmds) = 1
                /\ hist'[1].cmds[1].obj = last'.obj
                /\ hist'[1].cmds[1].attr = "array"
       /\ (last'.op = "undo" /\ hist[1].cmds[1].attr = "array")
             => /\ Triple(objs'[hist[1].cmds[1].obj])
                      = Triple(snap.h[1].pre[hist[1].cmds[1].obj])
                /\ View(objs') = snap.h[1].pre
       /\ (last'.op = "redo" /\ fut[1].cmds[1].attr = "array")
             => /\ Triple(objs'[fut[1].cmds[1].obj])
                      = Triple(snap.f[1].post[fut[1].cmds[1].obj])
                /\ View(objs') = snap.f[1].post]_vars

\* A conversion of a descriptor with variances that changed value, unit and
\* variance has been undone and redone.
ConversionRedone ==
    /\ last.op = "redo" /\ hist[1].cmds[1].attr = "array"
    /\ objs["d"].variance.t = "arr"
    /\ snap.h[1].pre["d"].value # snap.h[1].post["d"].value
    /\ snap.h[1].pre["d"].unit # snap.h[1].post["d"].unit
    /\ snap.h[1].pre["d"].variance # snap.h[1].post["d"].variance
    /\ Triple(objs["d"]) = Triple(snap.h[1].post["d"])

(***************************************************************************)
(* DescriptorArray: properties.                                            *)
(***************************************************************************)
\* The variances v go with the values x: none, or one per value and none
\* of them negative.
VarianceFits(v, x) ==
    v.t = "none" \/ (v.t = "arr" /\ Len(v.v) = Len(x.v) /\ AllNonNegative(v.v))

\* C16: variance invariant.  In every state reached by construction, the
\* value, variance and error setters, convert_unit, undo and redo (calls
\* that raise included), the variance of a DescriptorArray is absent or has
\* exactly the shape of the value and no negative element.
VarianceInvariant ==
    /\ \A o \in DOMAIN objs :
            objs[o].cls = "DescriptorArray"
                => VarianceFits(objs[o].variance, objs[o].value)
    /\ \A id \in DOMAIN heap : VarianceFits(heap[id].variances, heap[id].values)

\* A call with a negative or misshapen variance or error has raised on an
\* array that has variances.
VarianceRefused ==
    /\ last.err = "ValueError"
    /\ "d" \in DOMAIN objs
    /\ objs["d"].variance.t = "arr"
    /\ hist # <<>>

\* C17: the unit and full_value properties are read-only.  An assignment
\* to either raises AttributeError and leaves value, unit and variance of
\* the descriptor and both histories as they were; the unit of a descriptor
\* changes only in convert_unit, undo and redo.
ReadOnlyProperties ==
    [][/\ last'.op = "assign"
            => /\ last'.err = "AttributeError"
               /\ objs' = objs
               /\ heap' = heap
               /\ hist' = hist
               /\ fut' = fut
       /\ ("d" \in DOMAIN objs /\ objs'["d"].unit # objs["d"].unit)
            => last'.op \in {"convert", "undo", "redo"}]_vars

\* The unit of a converted array with a history has been assigned to.
UnitAssigned ==
    /\ last.op = "assign"
    /\ last.attr = "unit"
    /\ Same(last.val, Str("s"))
    /\ objs["d"].unit = "dm"
    /\ hist # <<>>
    /\ fut # <<>>

(***************************************************************************)
(* Arithmetic: properties.                                                 *)
(***************************************************************************)
\* The divisor and the dividend of the division that last describes, with
\* the objects os it was applied to.
Divisor(os, l) ==
    IF l.attr = "__truediv__" THEN Operand(os, l.val) ELSE Obj(os[l.obj])

Dividend(os, l) ==
    IF l.attr = "__truediv__" THEN Obj(os[l.obj]) ELSE Operand(os, l.val)

Division(l) == l.op = "arith" /\ l.attr \in {"__truediv__", "__rtruediv__"}

\* No result has been made and the operands are what they were.
NoResult == DOMAIN objs' = Permanent /\ \A k \in Permanent : objs'[k] = objs[k]

\* C18 as stated: a division with a DescriptorArray (array / other and
\* other / array) raises ZeroDivisionError whenever any element of either
\* operand is exactly 0, and no result object is produced.
AnyZeroOperandRaises ==
    [][(Division(last') /\ (AnyZero(Divisor(objs, last')) \/ AnyZero(Dividend(objs, last'))))
            => (last'.err = "ZeroDivisionError" /\ NoResult)]_vars

\* C18, amended: a division with a DescriptorArray raises ZeroDivisionError
\* exactly when an element of the divisor (other in array / other, the
\* array in other / array) is 0, whatever the kind of the other operand and
\* before anything else is looked at; no result object is produced then.  A
\* zero in the dividend alone does not raise.
ZeroDivisorRaises ==
    [][Division(last')
            => IF AnyZero(Divisor(objs, last'))
               THEN last'.err = "ZeroDivisionError" /\ NoResult
               ELSE last'.err # "ZeroDivisionError"]_vars

\* number / array has been refused for a zero in the array alone.
ZeroInArrayRefused ==
    /\ Division(last)
    /\ last.attr = "__rtruediv__"
    /\ Same(last.val, Named("n"))
    /\ ~AnyZero(Obj(objs["n"]))
    /\ AnyZero(Obj(objs[last.obj]))
    /\ last.err = "ZeroDivisionError"

\* C19: a binary operation (+, -, *, /, ** and the reverse forms) on a
\* DescriptorArray that returns, returns a new DescriptorArray under a
\* freshly generated unique name that is also its name and is the unique
\* name of neither operand, and value, unit and variance of both operands
\* are what they were before, also when the units of the operands differ
\* and are convertible.
ArithmeticIsPure ==
    [][(last'.op = "arith" /\ last'.err = "")
            => /\ \E r \in DOMAIN objs' \ Permanent :
                    /\ DOMAIN objs' = Permanent \cup {r}
                    /\ objs'[r].cls = "DescriptorArray"
                    /\ objs'[r].name = r
                    /\ r # last'.obj
                    /\ last'.val.t = "name" => r # last'.val.v
               /\ \A k \in Permanent : Triple(objs'[k]) = Triple(objs[k])]_vars

\* A DescriptorNumber in decimetres has been added to an array in metres.
AddedAcrossUnits ==
    /\ last.op = "arith"
    /\ last.attr = "__radd__"
    /\ last.obj = "d"
    /\ Same(last.val, Named("n"))
    /\ last.err = ""
    /\ objs["d"].unit = "m"
    /\ objs["n"].unit = "dm"
    /\ "DescriptorArray_0" \in DOMAIN objs

\* C20: canonical-unit invariant.  After construction and after any
\* sequence of convert_unit calls, undo and redo, the stored unit string of
\* a DescriptorArray has no leading numeric scale prefix: _base_unit()
\* returns the stored unit itself.
CanonicalUnit ==
    \A o \in DOMAIN objs :
        objs[o].cls = "DescriptorArray" => BaseUnit(objs[o]) = objs[o].unit

\* The conversion that ended the constructor has been undone.
NormalisationUndone ==
    /\ last.op = "undo"
    /\ hist = <<>>
    /\ Len(fut) = 1
    /\ objs["d"].unit = "1000"

(***************************************************************************)
(* The undo/redo stack: labels and the order within a macro.               *)
(***************************************************************************)
\* C21: undoText/redoText of a macro.  When endMacro() returns, undoText()
\* is the label given to beginMacro; an entry keeps its label when undo()
\* moves it to the redo history and when redo() moves it back, so that
\* redoText() after the undo of a macro is the macro's label and never the
\* label of one of its commands.
MacroLabelReported ==
    [][/\ (last'.op = "end" /\ last'.err = "") => UndoText(Here)' = "Macro"
       /\ last'.op = "undo" => RedoText(Here)' = UndoText(Here)
       /\ last'.op = "redo" => UndoText(Here)' = RedoText(Here)]_vars

\* A macro holding commands has been closed and undone: redoText() is its
\* label, which none of its commands has.
MacroLabelOnRedo ==
    /\ last.op = "undo"
    /\ RedoText(Here) = "Macro"
    /\ Len(fut[1].cmds) >= 1
    /\ \A j \in 1..Len(fut[1].cmds) : fut[1].cmds[j].text # "Macro"

\* The first (last) command of an entry on the attribute that command j is on.
FirstOn(cmds, j) ==
    \A i \in (j + 1)..Len(cmds) : cmds[i].obj # cmds[j].obj \/ cmds[i].attr # cmds[j].attr

LastOn(cmds, j) ==
    \A i \in 1..(j - 1) : cmds[i].obj # cmds[j].obj \/ cmds[i].attr # cmds[j].attr

\* C24: order within an entry.  The commands of an entry are undone from
\* the most recent push to the first and redone from the first push to the
\* most recent: when undo() returns, every attribute of a Parameter that
\* the entry wrote has the old value of the first write to it (v0 of
\* v0 -> v1, v1 -> v2), and when redo() returns it has the new value of
\* the last write to it (v2).
MacroOrder ==
    /\ last.op = "undo" =>
          \A j \in 1..Len(fut[1].cmds) :
              LET cmd == fut[1].cmds[j]
              IN  (objs[cmd.obj].cls = "Parameter" /\ FirstOn(fut[1].cmds, j))
                      => Same(objs[cmd.obj][cmd.attr], cmd.old)
    /\ last.op = "redo" =>
          \A j \in 1..Len(hist[1].cmds) :
              LET cmd == hist[1].cmds[j]
              IN  (objs[cmd.obj].cls = "Parameter" /\ LastOn(hist[1].cmds, j))
                      => Same(objs[cmd.obj][cmd.attr], cmd.new)

\* A macro of two writes to the value of a (1 -> 2, then 2 -> 3) has been
\* undone, leaving 1, and redone, leaving 3.
TwoWritesRedone ==
    /\ last.op = "redo" /\ last.n = 1
    /\ hist[1].text = "Macro"
    /\ Len(hist[1].cmds) = 2
    /\ \A j \in 1..2 : hist[1].cmds[j].obj = "a" /\ hist[1].cmds[j].attr = "value"
    /\ hist[1].cmds[2].old = Num(1)
    /\ hist[1].cmds[2].new = hist[1].cmds[1].old
    /\ hist[1].cmds[1].new = Num(3)
    /\ objs["a"].value = Num(3)

(***************************************************************************)
(* The cascade of a write: properties.                                     *)
(***************************************************************************)
\* The number of constraints that write when the enabled constraint k is
\* invoked: k and, for each constraint registered on its dependent, those.
RECURSIVE Invocations(_, _, _)
Invocations(cs, os, k) ==
    LET uc == os[cs[k].dep].uc
        RECURSIVE Sum(_)
        Sum(i) == IF i > Len(uc) THEN 0 ELSE Invocations(cs, os, uc[i]) + Sum(i + 1)
    IN  IF ~cs[k].enabled THEN 0 ELSE 1 + Sum(1)

\* The invocations of inv, from the i-th on, that the write itself made:
\* those made by the writes of other constraints are skipped.
RECURSIVE TopLevel(_, _, _, _)
TopLevel(inv, cs, os, i) ==
    IF i > Len(inv) THEN <<>>
    ELSE <<inv[i]>> \o TopLevel(inv, cs, os, i + Invocations(cs, os, inv[i]))

\* Nothing invoked after the p-th invocation has written its dependent or
\* one of its independents.
Settled(inv, cs, p) ==
    \A q \in (p + 1)..Len(inv) :
        cs[inv[q]].dep \notin Independents(cs[inv[p]]) \cup {cs[inv[p]].dep}

\* C25: cascade ordering.  When X.value = x returns, the constraints the
\* write invoked are the enabled constraints registered on X, in the order
\* of their registration, and each was evaluated after the writes of the
\* ones before it: the dependent of an invoked constraint has the value of
\* its expression over the values the independents have now, unless a
\* constraint invoked later wrote one of them or the dependent.
CascadeOrder ==
    (last.op = "set" /\ last.attr = "value" /\ last.err = "")
       => /\ TopLevel(last.inv, cons, objs, 1)
                = SelectSeq(objs[last.obj].uc, LAMBDA k : cons[k].enabled)
          /\ \A p \in 1..Len(last.inv) :
                Settled(last.inv, cons, p)
                   => Same(objs[cons[last.inv[p]].dep].value,
                           ParseOperator(Here, cons[last.inv[p]]).val)

\* b.value = 2 with a = 2*b and then c = 3 - (a + b) registered on b: c has
\* been computed from the a that the first constraint wrote.
SecondSawFirst ==
    /\ last.op = "set" /\ last.obj = "b" /\ last.err = "" /\ last.val.v = 2
    /\ objs["b"].uc = <<"a2b", "cab">>
    /\ cons["a2b"].enabled /\ cons["cab"].enabled
    /\ last.inv = <<"a2b", "cab">>
    /\ objs["a"].value.v = 4
    /\ objs["c"].value.v = 0 - 3

\* Enabled constraints k1 and k2 form a chain from x: k1 is registered on
\* x and computes its dependent from x alone, k2 is registered on that
\* dependent and computes its own from it alone, and no other enabled
\* constraint has one of the two dependents.
Chain(x, k1, k2) ==
    /\ k1 # k2
    /\ cons[k1].enabled /\ cons[k2].enabled
    /\ Independents(cons[k1]) = {x}
    /\ Independents(cons[k2]) = {cons[k1].dep}
    /\ \E i \in 1..Len(objs[x].uc) : objs[x].uc[i] = k1
    /\ \E i \in 1..Len(objs[cons[k1].dep].uc) : objs[cons[k1].dep].uc[i] = k2
    /\ \A k \in DOMAIN cons \ {k1, k2} :
          cons[k].enabled => cons[k].dep \notin {cons[k1].dep, cons[k2].dep}

\* C26: run to completion.  With no cycle among the enabled constraints a
\* write of a number returns (the cascade ends, without an exception), and
\* when it returns the quantities down a chain from the written one have
\* been written: a = f(b) and d = g(a) for the values b and a have now.
\* Nothing is left to be done later.
ChainCompletes ==
    (last.op = "set" /\ ~Cyclic(cons))
       => /\ last.err = ""
          /\ \A k1, k2 \in DOMAIN cons :
                Chain(last.obj, k1, k2)
                   => /\ Same(objs[cons[k1].dep].value, ParseOperator(Here, cons[k1]).val)
                      /\ Same(objs[cons[k2].dep].value, ParseOperator(Here, cons[k2]).val)

\* b.value = 3 has been carried along the chain a = b, c = a.
ChainWritten ==
    /\ last.op = "set" /\ last.obj = "b" /\ last.err = "" /\ last.val = Num(3)
    /\ {"ab", "ca"} \subseteq DOMAIN cons
    /\ Chain("b", "ab", "ca")
    /\ last.inv = <<"ab", "ca">>
    /\ objs["a"].value = Num(3)
    /\ objs["c"].value = Num(3)

(***************************************************************************)
(* Constraints: what an assignment to enabled and an invocation leave      *)
(* alone.                                                                  *)
(***************************************************************************)
\* C27: k.enabled = v with v the value k.enabled already has changes
\* nothing: the constraint is not invoked, and the value and the enabled
\* flag of the dependent (of every object) stay as they are, whatever the
\* dependent's flag was.
SameValueNoOp ==
    [][(last'.op = "toggle" /\ last'.val.was = last'.val.b)
          => /\ last'.err = ""
             /\ last'.inv = <<>>
             /\ objs' = objs
             /\ cons' = cons]_vars

\* An enabled constraint with independents was assigned enabled = True
\* while its dependent was enabled (another constraint had been switched
\* off in the meantime).
SameValueOutOfStep ==
    /\ last.op = "toggle" /\ last.val.was /\ last.val.b
    /\ cons[LastK].enabled
    /\ cons[LastK].indep.t # "none"
    /\ objs[cons[LastK].dep].enabled.v

\* C28: a disabled constraint is inert.  k() on a disabled constraint
\* changes no object; and no operation makes a disabled constraint write:
\* the constraints that wrote during a write, an invocation or an
\* assignment to enabled were enabled, and the dependent of a disabled
\* constraint registered on the written parameter keeps its value and its
\* enabled flag unless an enabled constraint has the same dependent.
DisabledIsInert ==
    [][/\ (last'.op = "invoke" /\ ~cons[LastK'].enabled)
             => /\ last'.err = ""
                /\ last'.inv = <<>>
                /\ objs' = objs
       /\ last'.op \in {"set", "invoke", "toggle"}
             => \A i \in 1..Len(last'.inv) : cons[last'.inv[i]].enabled
       /\ (last'.op = "set" /\ last'.attr = "value")
             => \A i \in 1..Len(objs[last'.obj].uc) :
                   LET c == cons[objs[last'.obj].uc[i]]
                   IN  (/\ ~c.enabled
                        /\ \A k \in DOMAIN cons : cons[k].enabled => cons[k].dep # c.dep)
                          => objs'[c.dep] = objs[c.dep]]_vars

\* A write to b has returned; a disabled constraint is registered on b and
\* its dependent does not have the value of its expression.
WroteUnderDisabled ==
    /\ last.op = "set" /\ last.obj = "b" /\ last.err = ""
    /\ \E i \in 1..Len(objs["b"].uc) :
          LET c == cons[objs["b"].uc[i]]
          IN  /\ ~c.enabled
              /\ ~Same(objs[c.dep].value, ParseOperator(Here, c).val)

\* C29: an invocation restores the enabled flag.  When k() on an enabled
\* constraint returns, it has written its dependent and the dependent's
\* enabled flag is what it was before the call, disabled or enabled; the
\* same holds of every constraint invoked in the course of a write.
InvokeRestoresFlag ==
    [][/\ (last'.op = "invoke" /\ cons[LastK'].enabled /\ last'.err = "")
             => /\ \E i \in 1..Len(last'.inv) : last'.inv[i] = LastK'
                /\ objs'[cons[LastK'].dep].enabled = objs[cons[LastK'].dep].enabled
       /\ (last'.op \in {"set", "invoke"} /\ last'.err = "")
             => \A i \in 1..Len(last'.inv) :
                   objs'[cons[last'.inv[i]].dep].enabled
                      = objs[cons[last'.inv[i]].dep].enabled]_vars

\* An enabled constraint was invoked on a disabled dependent: the value
\* changed and the dependent is disabled.
WroteAndDisabledAgain ==
    /\ last.op = "invoke" /\ last.err = ""
    /\ cons[LastK].enabled
    /\ ~objs[cons[LastK].dep].enabled.v
    /\ objs[cons[LastK].dep].value # last.val.before

(***************************************************************************)
(* The end of a constraint, cleanup_constraint, and evaluation without a   *)
(* write.                                                                  *)
(***************************************************************************)
\* The constraints that have o as their dependent.
OwnersOf(cs, o) == {k \in DOMAIN cs : cs[k].dep = o}

\* C22: when a constraint goes away without teardown, its dependent is
\* enabled again if the constructor had disabled it (the constraint has
\* independents), and no parameter is left disabled when the last
\* constraint that has it as dependent goes away.
NoOrphanDisabled ==
    [][(last'.op = "destroy" /\ last'.obj \in DOMAIN objs')
          => /\ last'.val.c.indep.t # "none" => objs'[last'.obj].enabled.v
             /\ OwnersOf(cons', last'.obj) = {} => objs'[last'.obj].enabled.v]_vars

\* What holds of the end of a constraint: the dependent of a constraint with
\* independents is enabled when the constraint has gone.
FinalizerEnables ==
    [][(last'.op = "destroy" /\ last'.obj \in DOMAIN objs'
          /\ last'.val.c.indep.t # "none")
          => objs'[last'.obj].enabled.v]_vars

EvaluateOnly ==
    [][(last'.op = "evaluate" /\ cons[LastK'].enabled /\ last'.err = "")
          => /\ objs' = objs
             /\ cons' = cons
             /\ hist' = hist
             /\ fut' = fut
             /\ LET N == Call(Here, LastK', Depth(Here))
                IN  /\ N.err = ""
                    /\ Same(last'.val.ret, N.objs[cons[LastK'].dep].value)]_vars

\* With the stack enabled, an evaluation has returned a value that is not
\* the value of the dependent.
EvaluatedOutOfStep ==
    /\ last.op = "evaluate" /\ last.err = ""
    /\ sten /\ hist # <<>>
    /\ cons[LastK].enabled
    /\ ~objs[cons[LastK].dep].enabled.v
    /\ ~Same(last.val.ret, objs[cons[LastK].dep].value)

(***************************************************************************)
(* Constraints: switching a constraint off and on again.                   *)
(***************************************************************************)
\* The step is k.enabled = True right after k.enabled = False on the same
\* enabled constraint k.
OffThenOn ==
    /\ last.op = "toggle" /\ last.val.was /\ ~last.val.b /\ last.err = ""
    /\ last'.op = "toggle" /\ last'.val.b /\ LastK' = LastK

\* C31: k.enabled = False followed by k.enabled = True leaves k enabled and
\* the dependent's enabled flag as it was when the constructor of k
\* returned; no assignment to k.enabled changes the enabled flag of an
\* independent of k.
ToggleRoundTrip ==
    [][/\ OffThenOn
          => /\ last'.err = ""
             /\ cons'[LastK'].enabled
             /\ objs'[cons[LastK'].dep].enabled.v = cons[LastK'].born
       /\ last'.op = "toggle"
          => \A o \in Independents(cons[LastK']) :
                objs'[o].enabled = objs[o].enabled]_vars

\* What holds of the round trip: it leaves the constraint enabled and its
\* dependent disabled, which for a constraint with independents is how the
\* constructor left them.
ToggleRoundTripDisables ==
    [][OffThenOn
          => /\ last'.err = ""
             /\ cons'[LastK'].enabled
             /\ ~objs'[cons[LastK'].dep].enabled.v
             /\ cons[LastK'].indep.t # "none" => ~cons[LastK'].born]_vars

\* A constraint with independents has been switched off and on again.
ToggledBack ==
    /\ last.op = "toggle" /\ last.val.b /\ ~last.val.was /\ last.err = ""
    /\ cons[LastK].indep.t # "none"
    /\ cons[LastK].enabled
    /\ ~objs[cons[LastK].dep].enabled.v

(***************************************************************************)
(* Constraints: the correction of an array.                                *)
(***************************************************************************)
\* The array xs with every element that fails 'element op v2' replaced by v2.
Corrected(xs, op, v2) ==
    [i \in 1..Len(xs) |-> IF Compare(op, xs[i], v2) THEN xs[i] ELSE v2]

\* The operand v2 of constraint c on the object o: self.value, or the
\* attribute of o it names.
Limit(c, o) == IF c.cls = "SelfConstraint" THEN o[c.value].v ELSE c.value

\* C32: invoking an enabled NumericConstraint or SelfConstraint whose
\* dependent holds an array raises nothing and replaces exactly the elements
\* that fail the comparison by v2, for arrays of one and of several elements.
ElementwiseCorrection ==
    (/\ last.op = "invoke"
     /\ cons[LastK].enabled
     /\ last.val.before.t = "arr")
        => /\ last.err = ""
           /\ objs[last.obj].value =
                Arr(Corrected(last.val.before.v, cons[LastK].operator[1],
                              Limit(cons[LastK], objs[last.obj])))

\* What holds of an array of one element: it is corrected as a number is.
SingleElementCorrection ==
    (/\ last.op = "invoke"
     /\ cons[LastK].enabled
     /\ last.val.before.t = "arr"
     /\ Len(last.val.before.v) = 1)
        => /\ last.err = ""
           /\ objs[last.obj].value =
                Arr(Corrected(last.val.before.v, cons[LastK].operator[1],
                              Limit(cons[LastK], objs[last.obj])))

\* The one element of d was above the limit and has been replaced.
SingleElementClamped ==
    /\ last.op = "invoke" /\ last.err = ""
    /\ last.val.before = Arr(<<3>>)
    /\ objs[last.obj].value = Arr(<<2>>)

(***************************************************************************)
(* Constraints: the expression of a MultiObjConstraint.                    *)
(***************************************************************************)
\* operators[i] applied to independents[i], as in a + b - 2*c.
Term(op, v) ==
    CASE op = "+" -> v
      [] op = "-" -> 0 - v
      [] op = "-2*" -> 0 - 2 * v

RECURSIVE SumOfTerms(_, _, _)
SumOfTerms(vals, ops, i) ==
    IF i > Len(vals) THEN 0 ELSE Term(ops[i], vals[i]) + SumOfTerms(vals, ops, i + 1)

\* The expression the operators and the values stand for: with one operator
\* for every independent each operator goes with its independent, with one
\* fewer the operators stand between the independents.
Expression(ops, vals) ==
    IF Len(ops) = Len(vals) THEN SumOfTerms(vals, ops, 1)
    ELSE SumTerms(vals, ops, 2, vals[1])

\* The raw values of the independents of constraint c.
RawValues(c, os) == [i \in 1..Len(c.indep.v) |-> os[c.indep.v[i]].value.v]

\* C33: invoking an enabled MultiObjConstraint with n independents and n or
\* n-1 operators raises nothing and leaves the dependent at value minus the
\* expression of the operators and the independents' raw values; with
\* independents [b, c], operators ['+', '-2*'] and value 0 that is
\* 0 - (b - 2*c).
MultiExpression ==
    (/\ last.op = "invoke"
     /\ cons[LastK].cls = "MultiObjConstraint"
     /\ cons[LastK].enabled)
        => /\ last.err = ""
           /\ objs[last.obj].value =
                Num(cons[LastK].value
                    - Expression(cons[LastK].operator, RawValues(cons[LastK], objs)))

\* What holds: with one operator fewer than independents the dependent is
\* value minus the independents joined by the operators.
MultiExpressionInfix ==
    (/\ last.op = "invoke"
     /\ cons[LastK].cls = "MultiObjConstraint"
     /\ cons[LastK].enabled
     /\ Len(cons[LastK].operator) = Len(cons[LastK].indep.v) - 1)
        => /\ last.err = ""
           /\ objs[last.obj].value =
                Num(cons[LastK].value
                    - Expression(cons[LastK].operator, RawValues(cons[LastK], objs)))

\* a = 0 - (b - 2*c) has been evaluated with b = 2 and c = 3.
MultiEvaluated ==
    /\ last.op = "invoke" /\ last.err = ""
    /\ LastK = "m2c"
    /\ objs["b"].value = Num(2) /\ objs["c"].value = Num(3)
    /\ objs["a"].value = Num(4)

(***************************************************************************)
(* DescriptorArray: a write the setter refuses.                            *)
(***************************************************************************)
\* The validation of spec.md 4.2 for a write of v to attr of the array o:
\* value takes an array of the shape of the values; variance and error take
\* None or such an array without a negative element.
Valid(o, attr, v) ==
    IF attr = "value" THEN v.t = "arr" /\ Len(v.v) = Len(o.value.v)
    ELSE \/ v.t = "none"
         \/ v.t = "arr" /\ Len(v.v) = Len(o.value.v) /\ AllNonNegative(v.v)

Evaluated ==
    /\ last.op = "evaluate" /\ last.err = ""
    /\ cons[LastK].cls = "NumericConstraint"
    /\ cons[LastK].enabled

\* The comparison without its strictness.
NonStrict(op) ==
    CASE op = "<" -> "<="
      [] op = ">" -> ">="
      [] OTHER -> op

BoundsOf(o) == <<o.min, o.max, o.enabled>>

WroteThroughConstraint ==
    /\ last.op = "write" /\ last.err = ""
    /\ Len(last.inv) = 1
    /\ cons[last.inv[1]].cls = "ObjConstraint"

\* C38: one undo() after a write b.value = x that ran an enabled
\* ObjConstraint(a, op, b) registered on b restores the values b and a had
\* before the write, and a is still disabled after it.
WriteUndoneAtOnce ==
    [][(WroteThroughConstraint /\ last'.op = "undo")
        => LET a == cons[last.inv[1]].dep
           IN  /\ objs'[last.obj].value = last.val.before[last.obj].value
               /\ objs'[a].value = last.val.before[a].value
               /\ ~objs'[a].enabled.v]_vars

(***************************************************************************)
(* Arithmetic and construction: the undo stack.                            *)
(***************************************************************************)
\* C39: with the stack enabled, an arithmetic operation on descriptors and
\* the construction of a descriptor leave the global stack alone: the undo
\* history is not extended and the redo history is not cleared.
StackUntouched ==
    [][(sten /\ last'.op \in {"arith", "construct"})
        => /\ Len(hist') = Len(hist)
           /\ Len(fut') = Len(fut)]_vars

(***************************************************************************)
(* Invocations that fail: properties.                                      *)
(***************************************************************************)
\* The evaluation step of constraint k cannot succeed: dependent_obj_ids is
\* no string, an object k names is not in the global map, or the expression
\* of k is none.
CannotEvaluate(k) ==
    \/ cons[k].ids # "str"
    \/ ~Alive(k)
    \/ k \in {"bad", "doc"}

====
